---- MODULE Spec2Model ----
(***************************************************************************)
(* gophertype: the typing session of src/gophertype/session.go and the     *)
(* program around it (main.go, config.go, results.go).                     *)
(*                                                                         *)
(* The TypingState is the record `state`; the session event loop           *)
(* (runTypingSession) is the main task, the timer goroutine of timed mode  *)
(* is the timer task, and the keyboard reader, while it runs, offers one   *)
(* byte at every receive from keyChan.  Bytes are their ASCII codes; Go's  *)
(* 0-based index i of a string or slice is index i+1 here.                 *)
(*                                                                         *)
(* Spec and FairSpec are one call of runTypingSession; ProgramSpec is the  *)
(* process from the entry of main to its exit: loadConfig, setupTerminal   *)
(* and the deferred restore, the attempts of runSessionLoop and the        *)
(* prompt between them.  In these three stdin stays open; StdinSpec is     *)
(* one call of runTypingSession during which a read of stdin may fail.     *)
(* In all four a render leaves its line count in lastLineCount and no      *)
(* other trace; RenderSpec is one call of displayProgress (display.go) on  *)
(* a TypingState in mid-session, with the timer line it formats, the       *)
(* lines it wraps and the window it picks.                                 *)
(***************************************************************************)
EXTENDS Integers, Sequences, FiniteSets, TLC

VARIABLES
    state,          \* the TypingState of the running attempt
    mainPc,         \* where runTypingSession stands
    key,            \* runTypingSession's local `key` (0: its zero value)
    taken,          \* the byte most recently received from keyChan (0: none)
    drainCount,     \* loop index i of drainEscapeSequence
    result,         \* runTypingSession's return value, "running" before it
    displayMutex,   \* holder of state.displayMutex: "free", "main", "timer"
    timerPc,        \* where the timer goroutine stands ("none": not spawned)
    deadlineFired,  \* time.After(state.timeLimit) has delivered its value
    applied,        \* the bytes handed to handleBackspace / handleKeystroke
    keysLeft,       \* how many more such bytes the user will type
    lastLineCount,  \* state.lastLineCount, written by displayProgress
    runPc,          \* where main / run / runSessionLoop / promptToContinue stand
    args,           \* the command line: per flag <<>> (absent) or <<value>>
    config,         \* run's `config`
    runTarget,      \* run's `target`
    terminal,       \* the terminal: alternate screen, hidden cursor, raw mode,
                    \* and the newlines restore has printed
    acquireCount,   \* how often setupTerminal has succeeded
    restoreCount,   \* how often the restore closure has run
    deferred,       \* run's pending deferred calls
    err,            \* the error run returns ("nil": none)
    stderr,         \* the messages written to os.Stderr
    exitCode,       \* the process's exit code (-1: still running)
    action,         \* runSessionLoop's `action`, as last assigned
    promptKey,      \* promptToContinue's local `key` (0: its zero value)
    discarded,      \* the byte drainChannel has just consumed (0: none)
    sessionsLeft,   \* how many more attempts the user will start
    readerPc,       \* where the keyboard reader goroutine stands
    termWidth,      \* run's `termWidth`, every TypingState's terminalWidth
    frame           \* displayProgress's locals lines, startLine, endLine in
                    \* the call RenderSpec follows (NoFrame: none yet)

sessionVars == <<state, mainPc, key, taken, drainCount, result, displayMutex,
                 timerPc, deadlineFired, applied, keysLeft, lastLineCount>>

runVars == <<runPc, args, config, runTarget, terminal, acquireCount, restoreCount,
             deferred, err, stderr, exitCode, action, promptKey, discarded,
             sessionsLeft, readerPc, termWidth>>

ctlVars == <<runVars, frame>>

vars == <<sessionVars, ctlVars>>

----------------------------------------------------------------------------
(* Key codes, session.go:14-31 *)
keyCtrlC == 3
keyBackspace == 8
keyEnter == 10
keyReturn == 13
keyEscape == 27
keyUpperN == 78
keyUpperQ == 81
keyUpperR == 82
keyLowerN == 110
keyLowerQ == 113
keyLowerR == 114
keyDelete == 127
keySpace == 32
maxEscapeLen == 10

(* Bounds of the model *)
MaxKeys == 5            \* handled bytes per untimed session
MaxTimedKeys == 3       \* handled bytes per timed session
MaxFairKeys == 2        \* handled bytes per session under FairSpec
ExtensionWords == 1     \* words appended by one extension (the code: 100)
MaxProgramKeys == 2     \* handled bytes per run of the program
MaxSessions == 2        \* attempts per run of the program
InitialTimedWords == 1      \* words of the timed buffer (the code: 1000)
ClockGrain == 1         \* nanoseconds to either side of a clock boundary
MaxRenderWidth == 27    \* widest terminal of RenderSpec (the code: 80)
RenderSentences == 2    \* sentences of RenderSpec's timed buffer (the
                        \* code: 100)
InitialTimedSentences == 1  \* sentences of the timed buffer (the code: 100)

(* Target texts: words separated by single spaces.  "cat", "foo bar",      *)
(* "hello", "a b" for word-count mode, "a b", "foo bar" for the timed      *)
(* buffer.                                                                 *)
UntimedTexts ==
    { <<99, 97, 116>>,
      <<102, 111, 111, 32, 98, 97, 114>>,
      <<104, 101, 108, 108, 111>>,
      <<97, 32, 98>> }

TimedTexts ==
    { <<97, 32, 98>>,
      <<102, 111, 111, 32, 98, 97, 114>> }

(* The one-word text "be" of the fair runs *)
FairTexts == { <<98, 101>> }

(* The embedded word list, cut down to "a" and "be" *)
TopWords == { <<97>>, <<98, 101>> }

(* A printable byte that is in no target text: "x" *)
WrongByte == {120}

(* The built-in sentences, cut down to "a be." *)
defaultSentences == { <<97, 32, 98, 101, 46>> }

(* Terminal widths GetSize can report *)
TermWidths == {24, 25}

----------------------------------------------------------------------------
(* newTypingState *)
newTypingState(target, timed) ==
    [ sessionText     |-> target,
      position        |-> 0,
      errors          |-> 0,
      rawErrors       |-> 0,
      charsTyped      |-> 0,
      rawKeystrokes   |-> 0,
      charCorrectness |-> [i \in 1..Len(target) |-> FALSE],
      charTyped       |-> [i \in 1..Len(target) |-> FALSE],
      backspaceCount  |-> 0,
      isTimedMode     |-> timed ]

isInterrupt(k) == k = keyCtrlC

isBackspace(k) == k = keyDelete \/ k = keyBackspace

(* Mutant of handleBackspace: the slot's typed flag is not cleared *)
handleBackspace_keepsTypedFlag(s) ==
    IF s.position = 0 THEN s
    ELSE LET slot == s.position - 1
         IN [ s EXCEPT
                !.position = slot,
                !.charsTyped = @ - 1,
                !.backspaceCount = @ + 1,
                !.errors = IF ~s.charCorrectness[slot + 1] /\ s.charTyped[slot + 1]
                           THEN @ - 1 ELSE @,
                !.charCorrectness[slot + 1] = FALSE ]

(* Mutant of handleBackspace: the raw error of the slot is taken back too *)
handleBackspace_undoesRawError(s) ==
    IF s.position = 0 THEN s
    ELSE LET slot == s.position - 1
             wrong == ~s.charCorrectness[slot + 1] /\ s.charTyped[slot + 1]
         IN [ s EXCEPT
                !.position = slot,
                !.charsTyped = @ - 1,
                !.backspaceCount = @ + 1,
                !.errors = IF wrong THEN @ - 1 ELSE @,
                !.rawErrors = IF wrong THEN @ - 1 ELSE @,
                !.charCorrectness[slot + 1] = FALSE,
                !.charTyped[slot + 1] = FALSE ]

(* Mutant of handleBackspace: the slot's correctness flag is not cleared *)
handleBackspace_keepsCorrectFlag(s) ==
    IF s.position = 0 THEN s
    ELSE LET slot == s.position - 1
         IN [ s EXCEPT
                !.position = slot,
                !.charsTyped = @ - 1,
                !.backspaceCount = @ + 1,
                !.errors = IF ~s.charCorrectness[slot + 1] /\ s.charTyped[slot + 1]
                           THEN @ - 1 ELSE @,
                !.charTyped[slot + 1] = FALSE ]

(* Mutant of handleBackspace: a backspace at position 0 is counted as one *)
handleBackspace_countsAtStart(s) ==
    IF s.position = 0 THEN [ s EXCEPT !.backspaceCount = @ + 1 ]
    ELSE LET slot == s.position - 1
         IN [ s EXCEPT
                !.position = slot,
                !.charsTyped = @ - 1,
                !.backspaceCount = @ + 1,
                !.errors = IF ~s.charCorrectness[slot + 1] /\ s.charTyped[slot + 1]
                           THEN @ - 1 ELSE @,
                !.charCorrectness[slot + 1] = FALSE,
                !.charTyped[slot + 1] = FALSE ]

(* handleBackspace; slot is the Go index position-1 after the decrement *)
handleBackspace(s) ==
    IF s.position = 0 THEN s
    ELSE LET slot == s.position - 1
         IN [ s EXCEPT
                !.position = slot,
                !.charsTyped = @ - 1,
                !.backspaceCount = @ + 1,
                !.errors = IF ~s.charCorrectness[slot + 1] /\ s.charTyped[slot + 1]
                           THEN @ - 1 ELSE @,
                !.charCorrectness[slot + 1] = FALSE,
                !.charTyped[slot + 1] = FALSE ]

(* Mutant of markRangeIncorrect: the skipped range counts as one raw error *)
markRangeIncorrect_countsOnce(s, start, end) ==
    [ s EXCEPT
        !.charCorrectness = [j \in DOMAIN @ |->
                               IF start <= j - 1 /\ j - 1 < end THEN FALSE ELSE @[j]],
        !.rawErrors = @ + (IF end > start THEN 1 ELSE 0) ]

(* Mutant of markRangeIncorrect: a skipped character is a current error too *)
markRangeIncorrect_countsErrors(s, start, end) ==
    [ s EXCEPT
        !.charCorrectness = [j \in DOMAIN @ |->
                               IF start <= j - 1 /\ j - 1 < end THEN FALSE ELSE @[j]],
        !.errors = @ + (IF end > start THEN end - start ELSE 0),
        !.rawErrors = @ + (IF end > start THEN end - start ELSE 0) ]

(* markRangeIncorrect over the Go indices start..end-1 *)
markRangeIncorrect(s, start, end) ==
    [ s EXCEPT
        !.charCorrectness = [j \in DOMAIN @ |->
                               IF start <= j - 1 /\ j - 1 < end THEN FALSE ELSE @[j]],
        !.rawErrors = @ + (IF end > start THEN end - start ELSE 0) ]

(* The Go indices i >= position with sessionText[i] = ' ' *)
SpacesAhead(s) ==
    { i \in s.position..(Len(s.sessionText) - 1) : s.sessionText[i + 1] = keySpace }

Minimum(S) == CHOOSE m \in S : \A n \in S : m <= n

(* skipToNextWord *)
skipToNextWord(s) ==
    LET start == s.position
    IN IF SpacesAhead(s) # {}
       THEN LET i == Minimum(SpacesAhead(s))
            IN [ markRangeIncorrect(s, start, i) EXCEPT !.position = i + 1 ]
       ELSE [ markRangeIncorrect(s, start, Len(s.sessionText))
                EXCEPT !.position = Len(s.sessionText) ]

(* Mutant of canSkipWord: any position but the first allows the skip *)
canSkipWord_afterSpaceToo(s) == s.position # 0

(* canSkipWord *)
canSkipWord(s) ==
    IF s.position = 0 THEN FALSE
    ELSE s.sessionText[s.position] # keySpace

(* Mutant of handleSpace: a correct space advances without marking its slot *)
handleSpace_leavesSlotUnmarked(s) ==
    IF s.position < Len(s.sessionText) /\ s.sessionText[s.position + 1] = keySpace
    THEN [ s EXCEPT !.position = @ + 1 ]
    ELSE IF canSkipWord(s) THEN skipToNextWord(s) ELSE s

(* handleSpace *)
handleSpace(s) ==
    IF s.position < Len(s.sessionText) /\ s.sessionText[s.position + 1] = keySpace
    THEN [ s EXCEPT
             !.charCorrectness[s.position + 1] = TRUE,
             !.charTyped[s.position + 1] = TRUE,
             !.position = @ + 1 ]
    ELSE IF canSkipWord(s) THEN skipToNextWord(s) ELSE s

(* Mutant of handleKeystroke: only a wrong character marks its slot typed *)
handleKeystroke_typedOnlyWhenWrong(s, k) ==
    LET s1 == [ s EXCEPT !.charsTyped = @ + 1, !.rawKeystrokes = @ + 1 ]
    IN IF k = keySpace THEN handleSpace(s1)
       ELSE IF s1.position >= Len(s1.sessionText) THEN s1
       ELSE IF k = s1.sessionText[s1.position + 1]
            THEN [ s1 EXCEPT
                     !.charCorrectness[s1.position + 1] = TRUE,
                     !.position = @ + 1 ]
            ELSE [ s1 EXCEPT
                     !.charTyped[s1.position + 1] = TRUE,
                     !.charCorrectness[s1.position + 1] = FALSE,
                     !.errors = @ + 1,
                     !.rawErrors = @ + 1,
                     !.position = @ + 1 ]

(* handleKeystroke *)
handleKeystroke(s, k) ==
    LET s1 == [ s EXCEPT !.charsTyped = @ + 1, !.rawKeystrokes = @ + 1 ]
    IN IF k = keySpace THEN handleSpace(s1)
       ELSE IF s1.position >= Len(s1.sessionText) THEN s1
       ELSE IF k = s1.sessionText[s1.position + 1]
            THEN [ s1 EXCEPT
                     !.charTyped[s1.position + 1] = TRUE,
                     !.charCorrectness[s1.position + 1] = TRUE,
                     !.position = @ + 1 ]
            ELSE [ s1 EXCEPT
                     !.charTyped[s1.position + 1] = TRUE,
                     !.charCorrectness[s1.position + 1] = FALSE,
                     !.errors = @ + 1,
                     !.rawErrors = @ + 1,
                     !.position = @ + 1 ]

(* strings.Join(words, " ") *)
RECURSIVE JoinWords(_)
JoinWords(words) ==
    IF Len(words) = 0 THEN <<>>
    ELSE IF Len(words) = 1 THEN words[1]
    ELSE words[1] \o <<keySpace>> \o JoinWords(Tail(words))

(* The word sequences one extension can draw *)
NewWordChoices == [1..ExtensionWords -> TopWords]

(* Mutant of extendTextForTimedMode: the two arrays are made anew *)
extendTextForTimedMode_freshArrays(s, newWords) ==
    LET newText == <<keySpace>> \o JoinWords(newWords)
        newLen  == Len(s.charCorrectness) + Len(newText)
    IN [ s EXCEPT
           !.sessionText = @ \o newText,
           !.charCorrectness = [i \in 1..newLen |-> FALSE],
           !.charTyped = [i \in 1..newLen |-> FALSE] ]

(* extendTextForTimedMode, newWords being the words drawn at random *)
extendTextForTimedMode(s, newWords) ==
    LET newText == <<keySpace>> \o JoinWords(newWords)
        oldLen  == Len(s.charCorrectness)
        newLen  == oldLen + Len(newText)
    IN [ s EXCEPT
           !.sessionText = @ \o newText,
           !.charCorrectness = [i \in 1..newLen |-> IF i <= oldLen THEN @[i] ELSE FALSE],
           !.charTyped = [i \in 1..newLen |-> IF i <= oldLen THEN @[i] ELSE FALSE] ]

(* Mutant of AtEndOfText: the end is noticed one position late *)
AtEndOfText_strict(s) == s.position > Len(s.sessionText)

AtEndOfText(s) == s.position >= Len(s.sessionText)

----------------------------------------------------------------------------
(* results.go (src/unnamed/part_007).  A float64 is the exact fraction     *)
(* num/den with den > 0; rounding is not modelled.                         *)
Ratio(n, d) ==
    [ num |-> IF d < 0 THEN 0 - n ELSE n, den |-> IF d < 0 THEN 0 - d ELSE d ]

Whole(k) == [ num |-> k, den |-> 1 ]

Times(r, k) == [ num |-> r.num * k, den |-> r.den ]

Below(r, q) == r.num * q.den < q.num * r.den

Same(r, q) == r.num * q.den = q.num * r.den

(* Mutant of clamp: the value is passed through *)
clamp_passesThrough(value, min, max) == value

(* clamp *)
clamp(value, min, max) ==
    IF Below(value, min) THEN min
    ELSE IF Below(max, value) THEN max
    ELSE value

(* calculateAccuracy *)
calculateAccuracy(typed, errors) ==
    IF typed = 0 THEN Whole(0)
    ELSE clamp(Times(Ratio(typed - errors, typed), 100), Whole(0), Whole(100))

(* countCorrectChars *)
countCorrectChars(s) ==
    Cardinality({ i \in 0..(s.position - 1) : s.charCorrectness[i + 1] })

(* NewResults, without the two fields that depend on the clock *)
NewResults(s) ==
    [ Accuracy       |-> calculateAccuracy(s.charsTyped, s.errors),
      RawAccuracy    |-> calculateAccuracy(s.rawKeystrokes, s.rawErrors),
      CorrectChars   |-> countCorrectChars(s),
      BackspaceCount |-> s.backspaceCount,
      Errors         |-> s.errors,
      RawErrors      |-> s.rawErrors ]

----------------------------------------------------------------------------
(* config.go *)
defaultTextSource == "words"
defaultWordCount == 50
defaultTimeSeconds == 30

(* The value flag.Parse leaves in a flag's variable *)
FlagValue(flag, default) == IF flag = <<>> THEN default ELSE flag[1]

(* Command lines: no flag at all, and `-w n` *)
NoArgs == [ t |-> <<>>, w |-> <<>>, s |-> <<>>, v |-> <<>> ]

WordArgs(n) == [ NoArgs EXCEPT !.w = <<n>> ]

(* The number of words of a text *)
WordsIn(text) ==
    Cardinality({ i \in 1..Len(text) : text[i] = keySpace }) + 1

(* Mutant of loadConfig: a positive word count is looked at first *)
loadConfig_wordsFirst(a) ==
    LET timeSeconds == FlagValue(a.t, 0)
        wordCount   == FlagValue(a.w, 0)
        textSource  == FlagValue(a.s, "")
        base == [ TextSource  |-> IF textSource # "" THEN textSource
                                  ELSE defaultTextSource,
                  WordCount   |-> defaultWordCount,
                  TimeSeconds |-> defaultTimeSeconds ]
    IN IF wordCount > 0
       THEN [ base EXCEPT !.WordCount = wordCount, !.TimeSeconds = 0 ]
       ELSE IF timeSeconds > 0 THEN [ base EXCEPT !.TimeSeconds = timeSeconds ]
            ELSE base

(* loadConfig, past the version check *)
loadConfig(a) ==
    LET timeSeconds == FlagValue(a.t, 0)
        wordCount   == FlagValue(a.w, 0)
        textSource  == FlagValue(a.s, "")
        base == [ TextSource  |-> IF textSource # "" THEN textSource
                                  ELSE defaultTextSource,
                  WordCount   |-> defaultWordCount,
                  TimeSeconds |-> defaultTimeSeconds ]
    IN IF timeSeconds > 0 THEN [ base EXCEPT !.TimeSeconds = timeSeconds ]
       ELSE IF wordCount > 0
            THEN [ base EXCEPT !.WordCount = wordCount, !.TimeSeconds = 0 ]
            ELSE base

(* No exit code yet *)
NoExit == 0 - 1

(* Command lines: none, -w 1, -w 0, -t 1 -w 1 -s sentences,                *)
(* -w 1 -s sentences, -s bogus, -v                                         *)
CommandLines ==
    { NoArgs,
      [ NoArgs EXCEPT !.w = <<1>> ],
      [ NoArgs EXCEPT !.w = <<0>> ],
      [ NoArgs EXCEPT !.t = <<1>>, !.w = <<1>>, !.s = <<"sentences">> ],
      [ NoArgs EXCEPT !.w = <<1>>, !.s = <<"sentences">> ],
      [ NoArgs EXCEPT !.s = <<"bogus">> ],
      [ NoArgs EXCEPT !.v = <<TRUE>> ] }

(* The zero Config *)
NoConfig == [ TextSource |-> "", WordCount |-> 0, TimeSeconds |-> 0 ]

(* generateWordText: the texts it can return *)
generateWordText(count) ==
    { JoinWords(words) : words \in [1..count -> TopWords] }

(* generateInitialWordText *)
generateInitialWordText ==
    { JoinWords(words) : words \in [1..InitialTimedWords -> TopWords] }

(* generateInitialSentenceText *)
generateInitialSentenceText ==
    { JoinWords(sentences) :
        sentences \in [1..InitialTimedSentences -> defaultSentences] }

(* getSessionText: the error, and the texts it can return without one *)
getSessionText(c) ==
    IF c.TextSource = "sentences"
    THEN [ err   |-> "nil",
           texts |-> IF c.TimeSeconds > 0 THEN generateInitialSentenceText
                     ELSE defaultSentences ]
    ELSE IF c.TextSource = "words"
    THEN [ err   |-> "nil",
           texts |-> IF c.TimeSeconds > 0 THEN generateInitialWordText
                     ELSE generateWordText(c.WordCount) ]
    ELSE [ err |-> "unknown text source", texts |-> {} ]

(* getAndValidateTerminalWidth: its error for the width GetSize reports *)
minWidth == 25
maxWidth == 80

getAndValidateTerminalWidth(width) ==
    IF width < minWidth THEN "terminal too narrow" ELSE "nil"

(* getAndValidateTerminalWidth: the width it returns, 0 with an error *)
validatedWidth(width) ==
    IF width < minWidth THEN 0
    ELSE IF width > maxWidth THEN maxWidth ELSE width

(* Mutant of promptAction: Enter is passed over *)
promptAction_withoutEnter(k) ==
    IF k = keyCtrlC THEN "Exit"
    ELSE IF k \in {keyLowerN, keyUpperN} THEN "Next"
    ELSE IF k \in {keyLowerR, keyUpperR} THEN "Retry"
    ELSE IF k \in {keyLowerQ, keyUpperQ} THEN "Exit"
    ELSE "none"

(* promptToContinue's switch: the action a byte returns, "none" for the    *)
(* bytes the loop passes over                                              *)
promptAction(k) ==
    IF k = keyCtrlC THEN "Exit"
    ELSE IF k \in {keyEnter, keyReturn, keyLowerN, keyUpperN} THEN "Next"
    ELSE IF k \in {keyLowerR, keyUpperR} THEN "Retry"
    ELSE IF k \in {keyLowerQ, keyUpperQ} THEN "Exit"
    ELSE "none"

----------------------------------------------------------------------------
(* The keyboard: what the reader goroutine can offer on keyChan, one byte  *)
(* of each kind the loop tells apart (keyBackspace stands for both         *)
(* backspace codes, WrongByte and keyEnter for the bytes that match no     *)
(* character of the text)                                                  *)
InputBytes(s) ==
    {keyCtrlC, keyBackspace, keyEnter, keyEscape, keySpace} \cup WrongByte
      \cup (IF s.position < Len(s.sessionText)
            THEN {s.sessionText[s.position + 1]} ELSE {})

(* The bytes that may follow ESC inside the escape window: Ctrl-C, "[" *)
DrainBytes == {keyCtrlC, 91}

(* The bytes drainChannel may find: Ctrl-C, "n" *)
PromptDrainBytes == {keyCtrlC, keyLowerN}

(* What the reader can offer while promptToContinue runs *)
PromptBytes ==
    { keyCtrlC, keyEnter, keyReturn, keyLowerN, keyUpperN, keyLowerR, keyUpperR,
      keyLowerQ, keyUpperQ, keyEscape, keySpace } \cup WrongByte

(* A byte that runTypingSession hands to handleBackspace or handleKeystroke *)
IsHandled(k) == ~isInterrupt(k) /\ k # keyEscape

----------------------------------------------------------------------------
(* display.go: the wrapped lines and the visible window.  A wrappedLine    *)
(* is a record; charIndices and cursorPosition keep Go's 0-based values.   *)
maxVisibleLines == 3
cursorWidth == 1

(* The one element of a one-element set.  A loop's result is taken through *)
(* it wherever it is used more than once, { e(x) : x \in {result} }, so     *)
(* that it is computed once                                                *)
The(S) == CHOOSE x \in S : TRUE

emptyLine ==
    [ content |-> <<>>, charIndices |-> <<>>, hasCursor |-> FALSE,
      cursorPosition |-> 0 ]

(* splitIntoWords, lines 153-163: the body of the loop, for the character *)
(* at index st.i; st holds the loop's variables                            *)
SplitStep(text, st) ==
    IF text[st.i] = keySpace
    THEN [ i           |-> st.i + 1,
           words       |-> Append(IF st.currentWord # <<>>
                                  THEN Append(st.words, st.currentWord)
                                  ELSE st.words,
                                  <<keySpace>>),
           currentWord |-> <<>> ]
    ELSE [ i           |-> st.i + 1,
           words       |-> st.words,
           currentWord |-> Append(st.currentWord, text[st.i]) ]

(* The loop of splitIntoWords from index st.i up to index hi, in order;    *)
(* the range is halved so that the evaluation stays shallow                *)
RECURSIVE SplitUpTo(_, _, _)
SplitUpTo(text, st, hi) ==
    IF st.i > hi THEN st
    ELSE IF st.i = hi THEN SplitStep(text, st)
    ELSE The({ SplitUpTo(text, half, hi) :
                 half \in { SplitUpTo(text, st, (st.i + hi) \div 2) } })

splitIntoWords(text) ==
    The({ IF st.currentWord # <<>> THEN Append(st.words, st.currentWord)
          ELSE st.words :
          st \in { SplitUpTo(text,
                             [ i |-> 1, words |-> <<>>, currentWord |-> <<>> ],
                             Len(text)) } })

(* Mutant of AddWord: the display column is recorded, not the text index *)
AddWord_recordsColumns(line, word, textIndex, cursorPos) ==
    LET here == textIndex <= cursorPos /\ cursorPos < textIndex + Len(word)
    IN [ content        |-> line.content \o word,
         charIndices    |-> line.charIndices \o
                              [ j \in 1..Len(word) |->
                                  Len(line.content) + j - 1 ],
         hasCursor      |-> line.hasCursor \/ here,
         cursorPosition |-> IF here
                            THEN Len(line.content) + (cursorPos - textIndex)
                            ELSE line.cursorPosition ]

(* wrapTextToLines, lines 118-127: the word goes onto the line character   *)
(* by character; the cursor is marked when textIndex meets cursorPos       *)
AddWord(line, word, textIndex, cursorPos) ==
    LET here == textIndex <= cursorPos /\ cursorPos < textIndex + Len(word)
    IN [ content        |-> line.content \o word,
         charIndices    |-> line.charIndices \o
                              [ j \in 1..Len(word) |-> textIndex + j - 1 ],
         hasCursor      |-> line.hasCursor \/ here,
         cursorPosition |-> IF here
                            THEN Len(line.content) + (cursorPos - textIndex)
                            ELSE line.cursorPosition ]

(* Mutant of WrapStep: a space that overflows opens the new line *)
WrapStep_keepsSpace(words, st, cursorPos, lineWidth) ==
    LET word  == words[st.k]
        wraps == /\ Len(st.currentLine.content) > 0
                 /\ Len(st.currentLine.content) + Len(word) > lineWidth
    IN [ k           |-> st.k + 1,
         lines       |-> IF wraps THEN Append(st.lines, st.currentLine)
                         ELSE st.lines,
         currentLine |-> AddWord(IF wraps THEN emptyLine ELSE st.currentLine,
                                 word, st.textIndex, cursorPos),
         textIndex   |-> st.textIndex + Len(word) ]

(* wrapTextToLines, lines 108-128: the body of the loop, for the word at   *)
(* index st.k; st holds the loop's variables                               *)
WrapStep(words, st, cursorPos, lineWidth) ==
    LET word  == words[st.k]
        wraps == /\ Len(st.currentLine.content) > 0
                 /\ Len(st.currentLine.content) + Len(word) > lineWidth
    IN IF wraps /\ word = <<keySpace>>
       THEN [ k           |-> st.k + 1,
              lines       |-> Append(st.lines, st.currentLine),
              currentLine |-> emptyLine,
              textIndex   |-> st.textIndex + Len(word) ]
       ELSE [ k           |-> st.k + 1,
              lines       |-> IF wraps THEN Append(st.lines, st.currentLine)
                              ELSE st.lines,
              currentLine |-> AddWord(IF wraps THEN emptyLine
                                      ELSE st.currentLine,
                                      word, st.textIndex, cursorPos),
              textIndex   |-> st.textIndex + Len(word) ]

(* The loop of wrapTextToLines from word st.k up to word hi, in order; the *)
(* range is halved so that the evaluation stays shallow                    *)
RECURSIVE WrapUpTo(_, _, _, _, _)
WrapUpTo(words, st, hi, cursorPos, lineWidth) ==
    IF st.k > hi THEN st
    ELSE IF st.k = hi THEN WrapStep(words, st, cursorPos, lineWidth)
    ELSE The({ WrapUpTo(words, half, hi, cursorPos, lineWidth) :
                 half \in { WrapUpTo(words, st, (st.k + hi) \div 2, cursorPos,
                                     lineWidth) } })

(* wrapTextToLines, lines 129-144: what follows the loop *)
WrapEnd(text, looped, cursorPos) ==
    LET last == IF cursorPos >= Len(text)
                THEN [ looped.currentLine EXCEPT
                         !.hasCursor = TRUE,
                         !.cursorPosition = Len(looped.currentLine.content) ]
                ELSE looped.currentLine
    IN IF Len(last.content) > 0 \/ last.hasCursor
       THEN Append(looped.lines, last)
       ELSE looped.lines

wrapTextToLines(text, cursorPos, lineWidth) ==
    The({ The({ WrapEnd(text, looped, cursorPos) :
                looped \in { WrapUpTo(words,
                                      [ k |-> 1, lines |-> <<>>,
                                        currentLine |-> emptyLine,
                                        textIndex |-> 0 ],
                                      Len(words), cursorPos, lineWidth) } }) :
          words \in { splitIntoWords(text) } })

(* calculateVisibleWindow: 0-based start and end of lines[start:end] *)
calculateVisibleWindow(lines, maxLines) ==
    LET withCursor == { i \in 0..(Len(lines) - 1) : lines[i + 1].hasCursor }
        cursorLine == IF withCursor = {} THEN 0 ELSE Minimum(withCursor)
        start0     == IF cursorLine - 1 < 0 THEN 0 ELSE cursorLine - 1
        end0       == start0 + maxLines
    IN IF end0 > Len(lines)
       THEN [ start |-> IF Len(lines) - maxLines < 0 THEN 0
                        ELSE Len(lines) - maxLines,
              end   |-> Len(lines) ]
       ELSE [ start |-> start0, end |-> end0 ]

(* displayProgress: the wrapped lines and the window of the frame written *)
displayProgress(s, width) ==
    The({ The({ [ lines |-> lines, startLine |-> window.start,
                  endLine |-> window.end ] :
                window \in { calculateVisibleWindow(lines, maxVisibleLines) } }) :
          lines \in { wrapTextToLines(s.sessionText, s.position,
                                      width - cursorWidth) } })

(* displayProgress, lines 60-63: the value it leaves in lastLineCount *)
renderedLineCount(s, width) ==
    The({ (shown.endLine - shown.startLine) + (IF s.isTimedMode THEN 1 ELSE 0) :
          shown \in { displayProgress(s, width) } })

(* time.Second, time.Millisecond in nanoseconds, the unit of a Duration *)
Second == 1000000000
Millisecond == 1000000

(* newTypingState, lines 56-59: state.timeLimit, 0 in word-count mode *)
timeLimit == IF config.TimeSeconds > 0 THEN config.TimeSeconds * Second ELSE 0

(* formatTimer: the number in the timer line, elapsed being the value of  *)
(* time.Since(state.startTime).  int(remaining.Seconds()) is the whole     *)
(* seconds of remaining: the float64 has them exactly at these magnitudes  *)
formatTimer(limit, elapsed) ==
    LET remaining == IF limit - elapsed <= 0 THEN 0 ELSE limit - elapsed
        seconds   == remaining \div Second
    IN IF (remaining \div Millisecond) % 1000 > 0 THEN seconds + 1 ELSE seconds

(* No call of displayProgress is followed *)
NoFrame == [ lines |-> <<>>, startLine |-> 0, endLine |-> 0, elapsed |-> 0,
            timerLine |-> <<>> ]

----------------------------------------------------------------------------
(* The controller while one attempt runs: runSessionLoop is inside its     *)
(* call of runTypingSession, the terminal is acquired, the restore is       *)
(* deferred; run's target is the attempt's text                            *)
InSessionWith(commandLine) ==
    /\ runPc = "session"
    /\ args = commandLine
    /\ config = loadConfig(args)
    /\ runTarget = state.sessionText
    /\ terminal = [altScreen |-> TRUE, cursorHidden |-> TRUE, raw |-> TRUE,
                   newlines |-> 0]
    /\ acquireCount = 1
    /\ restoreCount = 0
    /\ deferred = <<"restore">>
    /\ err = "nil"
    /\ stderr = <<>>
    /\ exitCode = NoExit
    /\ action = "none"
    /\ promptKey = 0
    /\ discarded = 0
    /\ sessionsLeft = 0
    /\ readerPc = "read"

(* The same under the command line that asks for the attempt's mode and   *)
(* for as many words as its text has                                       *)
InSession ==
    InSessionWith(IF state.isTimedMode THEN NoArgs
                  ELSE WordArgs(WordsIn(state.sessionText)))

(* The state after newTypingState, before runTypingSession *)
InitWith(untimedTexts, timedTexts, untimedKeys, timedKeys) ==
    /\ \E timed \in BOOLEAN :
         \E target \in (IF timed THEN timedTexts ELSE untimedTexts) :
            /\ state = newTypingState(target, timed)
            /\ keysLeft = IF timed THEN timedKeys ELSE untimedKeys
    /\ mainPc = "start"
    /\ key = 0
    /\ taken = 0
    /\ drainCount = 0
    /\ result = "running"
    /\ displayMutex = "free"
    /\ timerPc = "none"
    /\ deadlineFired = FALSE
    /\ applied = <<>>
    /\ lastLineCount = 0
    /\ termWidth = minWidth
    /\ frame = NoFrame
    /\ InSession

Init == InitWith(UntimedTexts, TimedTexts, MaxKeys, MaxTimedKeys)

(* The program at the entry of main: no TypingState yet *)
InitProgram ==
    /\ args \in CommandLines
    /\ runPc = "loadConfig"
    /\ config = NoConfig
    /\ runTarget = <<>>
    /\ terminal = [altScreen |-> FALSE, cursorHidden |-> FALSE, raw |-> FALSE,
                   newlines |-> 0]
    /\ acquireCount = 0
    /\ restoreCount = 0
    /\ deferred = <<>>
    /\ err = "nil"
    /\ stderr = <<>>
    /\ exitCode = NoExit
    /\ action = "none"
    /\ promptKey = 0
    /\ discarded = 0
    /\ sessionsLeft = MaxSessions
    /\ readerPc = "none"
    /\ termWidth = 0
    /\ frame = NoFrame
    /\ state = newTypingState(<<>>, FALSE)
    /\ mainPc = "idle"
    /\ key = 0
    /\ taken = 0
    /\ drainCount = 0
    /\ result = "none"
    /\ displayMutex = "free"
    /\ timerPc = "none"
    /\ deadlineFired = FALSE
    /\ applied = <<>>
    /\ lastLineCount = 0
    /\ keysLeft = MaxProgramKeys

InitFair == InitWith(FairTexts, FairTexts, MaxFairKeys, MaxFairKeys)

(* runTypingSession, lines 174-200: header, startTime, the timer goroutine *)
StartSession ==
    /\ mainPc = "start"
    /\ mainPc' = "firstRender"
    /\ timerPc' = IF state.isTimedMode THEN "select" ELSE "none"
    /\ UNCHANGED <<state, lastLineCount, key, drainCount, result, displayMutex,
                   deadlineFired, applied, keysLeft, taken>>
    /\ UNCHANGED ctlVars

(* line 202: the first displayProgress, outside the mutex *)
FirstRender ==
    /\ mainPc = "firstRender"
    /\ mainPc' = "loop"
    /\ lastLineCount' = renderedLineCount(state, termWidth)
    /\ UNCHANGED <<state, key, drainCount, result, displayMutex, timerPc,
                   deadlineFired, applied, keysLeft, taken>>
    /\ UNCHANGED ctlVars

(* lines 206-211: end of text in word-count mode *)
FinishUntimed ==
    /\ mainPc = "loop"
    /\ ~state.isTimedMode /\ AtEndOfText(state)
    /\ mainPc' = "done"
    /\ result' = "Next"
    /\ UNCHANGED <<state, lastLineCount, key, drainCount, displayMutex,
                   timerPc, deadlineFired, applied, keysLeft, taken>>
    /\ UNCHANGED ctlVars

(* lines 214-218: end of text in timed mode, `var key byte`, the select *)
ExtendText ==
    /\ mainPc = "loop"
    /\ state.isTimedMode /\ AtEndOfText(state)
    /\ \E newWords \in NewWordChoices :
          state' = extendTextForTimedMode(state, newWords)
    /\ mainPc' = "select"
    /\ key' = 0
    /\ UNCHANGED <<lastLineCount, drainCount, result, displayMutex, timerPc,
                   deadlineFired, applied, keysLeft, taken>>
    /\ UNCHANGED ctlVars

(* neither check applies: line 218, `var key byte`, and the select *)
EnterSelect ==
    /\ mainPc = "loop"
    /\ ~AtEndOfText(state)
    /\ mainPc' = "select"
    /\ key' = 0
    /\ UNCHANGED <<state, lastLineCount, drainCount, result, displayMutex,
                   timerPc, deadlineFired, applied, keysLeft, taken>>
    /\ UNCHANGED ctlVars

(* The timer goroutine is blocked in `timeUp <- true` *)
TimeUpReady == timerPc = "send"

(* lines 220-224: case <-timeUp *)
SelectTimeUp ==
    /\ mainPc = "select"
    /\ TimeUpReady
    /\ timerPc' = "exit"
    /\ mainPc' = "done"
    /\ result' = "Next"
    /\ UNCHANGED <<state, lastLineCount, key, drainCount, displayMutex,
                   deadlineFired, applied, keysLeft, taken>>
    /\ UNCHANGED ctlVars

(* line 225: case key = <-keyChan *)
SelectKey ==
    /\ mainPc = "select"
    /\ readerPc = "read"
    /\ \E b \in InputBytes(state) :
          /\ IsHandled(b) => keysLeft > 0
          /\ key' = b
          /\ taken' = b
          /\ keysLeft' = IF IsHandled(b) THEN keysLeft - 1 ELSE keysLeft
    /\ mainPc' = "gotKey"
    /\ UNCHANGED <<state, lastLineCount, drainCount, result, displayMutex,
                   timerPc, deadlineFired, applied>>
    /\ UNCHANGED ctlVars

(* lines 229-234 *)
ReturnInterrupt ==
    /\ mainPc = "gotKey"
    /\ isInterrupt(key)
    /\ mainPc' = "done"
    /\ result' = "Interrupt"
    /\ UNCHANGED <<state, lastLineCount, key, drainCount, displayMutex,
                   timerPc, deadlineFired, applied, keysLeft, taken>>
    /\ UNCHANGED ctlVars

(* Mutant of StartDrain: the ESC byte is counted as a keystroke *)
StartDrain_countsEscape ==
    /\ mainPc = "gotKey"
    /\ ~isInterrupt(key) /\ key = keyEscape
    /\ mainPc' = "drain"
    /\ drainCount' = 0
    /\ state' = [ state EXCEPT !.charsTyped = @ + 1, !.rawKeystrokes = @ + 1 ]
    /\ UNCHANGED <<lastLineCount, key, result, displayMutex, timerPc,
                   deadlineFired, applied, keysLeft, taken>>
    /\ UNCHANGED ctlVars

(* lines 236-237: into drainEscapeSequence *)
StartDrain ==
    /\ mainPc = "gotKey"
    /\ ~isInterrupt(key) /\ key = keyEscape
    /\ mainPc' = "drain"
    /\ drainCount' = 0
    /\ UNCHANGED <<state, lastLineCount, key, result, displayMutex, timerPc,
                   deadlineFired, applied, keysLeft, taken>>
    /\ UNCHANGED ctlVars

(* drainEscapeSequence: case <-keyChan discards a byte; the loop ends    *)
(* after maxEscapeLen of them, then `continue`                              *)
DrainByte ==
    /\ mainPc = "drain"
    /\ readerPc = "read"
    /\ drainCount < maxEscapeLen
    /\ \E b \in DrainBytes : taken' = b
    /\ IF drainCount + 1 < maxEscapeLen
       THEN /\ drainCount' = drainCount + 1
            /\ mainPc' = "drain"
       ELSE /\ drainCount' = 0
            /\ mainPc' = "loop"
    /\ UNCHANGED <<state, lastLineCount, key, result, displayMutex, timerPc,
                   deadlineFired, applied, keysLeft>>
    /\ UNCHANGED ctlVars

(* drainEscapeSequence: case <-timeout, then `continue` *)
DrainTimeout ==
    /\ mainPc = "drain"
    /\ mainPc' = "loop"
    /\ drainCount' = 0
    /\ UNCHANGED <<state, lastLineCount, key, result, displayMutex, timerPc,
                   deadlineFired, applied, keysLeft, taken>>
    /\ UNCHANGED ctlVars

(* lines 241-242 *)
DoBackspace ==
    /\ mainPc = "gotKey"
    /\ ~isInterrupt(key) /\ key # keyEscape /\ isBackspace(key)
    /\ state' = handleBackspace(state)
    /\ applied' = Append(applied, key)
    /\ mainPc' = "lock"
    /\ UNCHANGED <<lastLineCount, key, drainCount, result, displayMutex,
                   timerPc, deadlineFired, keysLeft, taken>>
    /\ UNCHANGED ctlVars

(* line 249 *)
DoKeystroke ==
    /\ mainPc = "gotKey"
    /\ ~isInterrupt(key) /\ key # keyEscape /\ ~isBackspace(key)
    /\ state' = handleKeystroke(state, key)
    /\ applied' = Append(applied, key)
    /\ mainPc' = "lock"
    /\ UNCHANGED <<lastLineCount, key, drainCount, result, displayMutex,
                   timerPc, deadlineFired, keysLeft, taken>>
    /\ UNCHANGED ctlVars

(* lines 243 and 250: state.displayMutex.Lock() *)
MainLock ==
    /\ mainPc = "lock"
    /\ displayMutex = "free"
    /\ displayMutex' = "main"
    /\ mainPc' = "render"
    /\ UNCHANGED <<state, lastLineCount, key, drainCount, result, timerPc,
                   deadlineFired, applied, keysLeft, taken>>
    /\ UNCHANGED ctlVars

(* lines 244-246 and 251-252: displayProgress, Unlock, next iteration *)
MainRenderUnlock ==
    /\ mainPc = "render"
    /\ displayMutex' = "free"
    /\ mainPc' = "loop"
    /\ lastLineCount' = renderedLineCount(state, termWidth)
    /\ UNCHANGED <<state, key, drainCount, result, timerPc, deadlineFired, applied,
                   keysLeft, taken>>
    /\ UNCHANGED ctlVars

(* line 186: the one-shot timer of time.After(state.timeLimit) fires *)
DeadlineFires ==
    /\ timerPc # "none"
    /\ ~deadlineFired
    /\ deadlineFired' = TRUE
    /\ UNCHANGED <<state, lastLineCount, mainPc, key, drainCount, result,
                   displayMutex, timerPc, applied, keysLeft, taken>>
    /\ UNCHANGED ctlVars

(* line 193: case <-displayTicker.C *)
TimerTick ==
    /\ timerPc = "select"
    /\ timerPc' = "lock"
    /\ UNCHANGED <<state, lastLineCount, mainPc, key, drainCount, result,
                   displayMutex, deadlineFired, applied, keysLeft, taken>>
    /\ UNCHANGED ctlVars

(* Mutant of TimerTakeDeadline: the goroutine returns without the send *)
TimerTakeDeadline_returnsSilently ==
    /\ timerPc = "select"
    /\ deadlineFired
    /\ timerPc' = "exit"
    /\ UNCHANGED <<state, lastLineCount, mainPc, key, drainCount, result,
                   displayMutex, deadlineFired, applied, keysLeft, taken>>
    /\ UNCHANGED ctlVars

(* line 190: case <-timeUpTimer, then the send on timeUp *)
TimerTakeDeadline ==
    /\ timerPc = "select"
    /\ deadlineFired
    /\ timerPc' = "send"
    /\ UNCHANGED <<state, lastLineCount, mainPc, key, drainCount, result,
                   displayMutex, deadlineFired, applied, keysLeft, taken>>
    /\ UNCHANGED ctlVars

(* line 194 *)
TimerLock ==
    /\ timerPc = "lock"
    /\ displayMutex = "free"
    /\ displayMutex' = "timer"
    /\ timerPc' = "render"
    /\ UNCHANGED <<state, lastLineCount, mainPc, key, drainCount, result,
                   deadlineFired, applied, keysLeft, taken>>
    /\ UNCHANGED ctlVars

(* lines 195-196 *)
TimerRenderUnlock ==
    /\ timerPc = "render"
    /\ displayMutex' = "free"
    /\ timerPc' = "select"
    /\ lastLineCount' = renderedLineCount(state, termWidth)
    /\ UNCHANGED <<state, mainPc, key, drainCount, result, deadlineFired, applied,
                   keysLeft, taken>>
    /\ UNCHANGED ctlVars

Next ==
    \/ StartSession
    \/ FirstRender
    \/ FinishUntimed
    \/ ExtendText
    \/ EnterSelect
    \/ SelectTimeUp
    \/ SelectKey
    \/ ReturnInterrupt
    \/ StartDrain
    \/ DrainByte
    \/ DrainTimeout
    \/ DoBackspace
    \/ DoKeystroke
    \/ MainLock
    \/ MainRenderUnlock
    \/ DeadlineFires
    \/ TimerTick
    \/ TimerTakeDeadline
    \/ TimerLock
    \/ TimerRenderUnlock

Spec == Init /\ [][Next]_vars

----------------------------------------------------------------------------
(* main, run, runSessionLoop, promptToContinue *)

(* loadConfig with -v: prints the version, os.Exit(0) *)
ShowVersion ==
    /\ runPc = "loadConfig"
    /\ FlagValue(args.v, FALSE)
    /\ exitCode' = 0
    /\ runPc' = "exited"
    /\ UNCHANGED <<termWidth, frame>>
    /\ UNCHANGED <<readerPc, args, config, runTarget, terminal, acquireCount, restoreCount,
                   deferred, err, stderr, action, promptKey, discarded,
                   sessionsLeft>>
    /\ UNCHANGED sessionVars

(* main.go:26-29: loadConfig returns the Config and a nil error *)
LoadConfig ==
    /\ runPc = "loadConfig"
    /\ ~FlagValue(args.v, FALSE)
    /\ config' = loadConfig(args)
    /\ runPc' = "setupTerminal"
    /\ UNCHANGED <<termWidth, frame>>
    /\ UNCHANGED <<readerPc, args, runTarget, terminal, acquireCount, restoreCount,
                   deferred, err, stderr, exitCode, action, promptKey, discarded,
                   sessionsLeft>>
    /\ UNCHANGED sessionVars

(* main.go:32-36: setupTerminal succeeds, `defer restore()` *)
SetupTerminal ==
    /\ runPc = "setupTerminal"
    /\ terminal' = [terminal EXCEPT !.altScreen = TRUE, !.cursorHidden = TRUE,
                                    !.raw = TRUE]
    /\ acquireCount' = acquireCount + 1
    /\ deferred' = <<"restore">> \o deferred
    /\ runPc' = "width"
    /\ UNCHANGED <<termWidth, frame>>
    /\ UNCHANGED <<readerPc, args, config, runTarget, restoreCount, err, stderr, exitCode,
                   action, promptKey, discarded, sessionsLeft>>
    /\ UNCHANGED sessionVars

(* main.go:32-35: term.MakeRaw fails; setupTerminal undoes its escape      *)
(* codes and run returns the error                                         *)
SetupTerminalFails ==
    /\ runPc = "setupTerminal"
    /\ terminal' = [terminal EXCEPT !.altScreen = FALSE, !.cursorHidden = FALSE]
    /\ err' = "failed to setup terminal"
    /\ runPc' = "return"
    /\ UNCHANGED <<termWidth, frame>>
    /\ UNCHANGED <<readerPc, args, config, runTarget, acquireCount, restoreCount, deferred,
                   stderr, exitCode, action, promptKey, discarded, sessionsLeft>>
    /\ UNCHANGED sessionVars

(* main.go:39-45: the width check, then startKeyboardReader *)
ValidateWidth ==
    /\ runPc = "width"
    /\ \E width \in TermWidths :
          LET e == getAndValidateTerminalWidth(width)
          IN /\ err' = e
             /\ runPc' = IF e = "nil" THEN "getText" ELSE "return"
             /\ readerPc' = IF e = "nil" THEN "read" ELSE readerPc
             /\ termWidth' = validatedWidth(width)
    /\ UNCHANGED frame
    /\ UNCHANGED <<args, config, runTarget, terminal, acquireCount, restoreCount,
                   deferred, stderr, exitCode, action, promptKey, discarded,
                   sessionsLeft>>
    /\ UNCHANGED sessionVars

(* main.go:39-42: term.GetSize fails *)
WidthUnknown ==
    /\ runPc = "width"
    /\ err' = "failed to get terminal size"
    /\ runPc' = "return"
    /\ termWidth' = 0
    /\ UNCHANGED frame
    /\ UNCHANGED <<readerPc, args, config, runTarget, terminal, acquireCount, restoreCount,
                   deferred, stderr, exitCode, action, promptKey, discarded,
                   sessionsLeft>>
    /\ UNCHANGED sessionVars

(* main.go:48-54: getSessionText, then into runSessionLoop *)
GetSessionText ==
    /\ runPc = "getText"
    /\ LET got == getSessionText(config)
       IN IF got.err = "nil"
          THEN /\ \E text \in got.texts : runTarget' = text
               /\ runPc' = "newState"
               /\ err' = err
          ELSE /\ err' = "failed to load session text"
               /\ runPc' = "return"
               /\ runTarget' = <<>>
    /\ UNCHANGED <<termWidth, frame>>
    /\ UNCHANGED <<readerPc, args, config, terminal, acquireCount, restoreCount, deferred,
                   stderr, exitCode, action, promptKey, discarded, sessionsLeft>>
    /\ UNCHANGED sessionVars

(* Mutant of NewAttempt: a retry starts on the text as the previous        *)
(* attempt left it                                                         *)
NewAttempt_onExtendedText ==
    /\ runPc = "newState"
    /\ state' = newTypingState(IF action = "Retry" THEN state.sessionText
                               ELSE runTarget,
                               config.TimeSeconds > 0)
    /\ mainPc' = "start"
    /\ key' = 0
    /\ taken' = 0
    /\ drainCount' = 0
    /\ result' = "running"
    /\ displayMutex' = "free"
    /\ timerPc' = "none"
    /\ deadlineFired' = FALSE
    /\ applied' = <<>>
    /\ lastLineCount' = 0
    /\ sessionsLeft' = sessionsLeft - 1
    /\ runPc' = "session"
    /\ UNCHANGED <<termWidth, frame>>
    /\ UNCHANGED <<keysLeft, args, config, runTarget, terminal, acquireCount,
                   restoreCount, deferred, err, stderr, exitCode, action,
                   promptKey, discarded, readerPc>>

(* main.go:64-66: newTypingState, and the call of runTypingSession *)
NewAttempt ==
    /\ runPc = "newState"
    /\ state' = newTypingState(runTarget, config.TimeSeconds > 0)
    /\ mainPc' = "start"
    /\ key' = 0
    /\ taken' = 0
    /\ drainCount' = 0
    /\ result' = "running"
    /\ displayMutex' = "free"
    /\ timerPc' = "none"
    /\ deadlineFired' = FALSE
    /\ applied' = <<>>
    /\ lastLineCount' = 0
    /\ sessionsLeft' = sessionsLeft - 1
    /\ runPc' = "session"
    /\ UNCHANGED <<termWidth, frame>>
    /\ UNCHANGED <<keysLeft, args, config, runTarget, terminal, acquireCount,
                   restoreCount, deferred, err, stderr, exitCode, action,
                   promptKey, discarded, readerPc>>

(* Mutant of LoopInterrupted: the interrupted attempt goes to the prompt *)
LoopInterrupted_prompts ==
    /\ runPc = "session"
    /\ mainPc = "done" /\ result = "Interrupt"
    /\ runPc' = "promptDrain"
    /\ action' = result
    /\ key' = 0 /\ taken' = 0 /\ drainCount' = 0 /\ applied' = <<>>
    /\ UNCHANGED <<termWidth, frame>>
    /\ UNCHANGED <<readerPc, args, config, runTarget, terminal, acquireCount, restoreCount,
                   deferred, err, stderr, exitCode, promptKey, discarded,
                   sessionsLeft>>
    /\ UNCHANGED <<state, lastLineCount, mainPc, result, displayMutex, timerPc,
                   deadlineFired, keysLeft>>

(* main.go:66-71 and 54-55: the attempt returned ActionInterrupt,          *)
(* runSessionLoop returns false and run returns nil.  The locals of        *)
(* runTypingSession are gone, and the record of its input with them.       *)
LoopInterrupted ==
    /\ runPc = "session"
    /\ mainPc = "done" /\ result = "Interrupt"
    /\ err' = "nil"
    /\ runPc' = "return"
    /\ action' = result
    /\ key' = 0 /\ taken' = 0 /\ drainCount' = 0 /\ applied' = <<>>
    /\ UNCHANGED <<termWidth, frame>>
    /\ UNCHANGED <<readerPc, args, config, runTarget, terminal, acquireCount, restoreCount,
                   deferred, stderr, exitCode, promptKey, discarded,
                   sessionsLeft>>
    /\ UNCHANGED <<state, lastLineCount, mainPc, result, displayMutex, timerPc,
                   deadlineFired, keysLeft>>

(* main.go:66-73: any other result, into promptToContinue and its          *)
(* drainChannel                                                            *)
EnterPrompt ==
    /\ runPc = "session"
    /\ mainPc = "done" /\ result # "Interrupt"
    /\ runPc' = "promptDrain"
    /\ action' = result
    /\ promptKey' = 0
    /\ key' = 0 /\ taken' = 0 /\ drainCount' = 0 /\ applied' = <<>>
    /\ UNCHANGED <<termWidth, frame>>
    /\ UNCHANGED <<readerPc, args, config, runTarget, terminal, acquireCount, restoreCount,
                   deferred, err, stderr, exitCode, discarded,
                   sessionsLeft>>
    /\ UNCHANGED <<state, lastLineCount, mainPc, result, displayMutex, timerPc,
                   deadlineFired, keysLeft>>

(* drainChannel: case <-keyChan *)
PromptDrainByte ==
    /\ runPc = "promptDrain"
    /\ readerPc = "read"
    /\ \E b \in PromptDrainBytes : discarded' = b
    /\ UNCHANGED <<termWidth, frame>>
    /\ UNCHANGED <<readerPc, runPc, args, config, runTarget, terminal, acquireCount,
                   restoreCount, deferred, err, stderr, exitCode, action,
                   promptKey, sessionsLeft>>
    /\ UNCHANGED sessionVars

(* drainChannel: case <-deadline; the prompt is printed *)
PromptDrainDeadline ==
    /\ runPc = "promptDrain"
    /\ runPc' = "prompt"
    /\ discarded' = 0
    /\ UNCHANGED <<termWidth, frame>>
    /\ UNCHANGED <<readerPc, args, config, runTarget, terminal, acquireCount, restoreCount,
                   deferred, err, stderr, exitCode, action, promptKey,
                   sessionsLeft>>
    /\ UNCHANGED sessionVars

(* promptToContinue: a byte no case of the switch names; the loop goes on *)
PromptIgnores ==
    /\ runPc = "prompt"
    /\ readerPc = "read"
    /\ \E b \in PromptBytes :
          /\ promptAction(b) = "none"
          /\ promptKey' = b
    /\ UNCHANGED <<termWidth, frame>>
    /\ UNCHANGED <<readerPc, runPc, args, config, runTarget, terminal, acquireCount,
                   restoreCount, deferred, err, stderr, exitCode, action,
                   discarded, sessionsLeft>>
    /\ UNCHANGED sessionVars

(* promptToContinue: a byte of the switch; the function returns *)
PromptDecides ==
    /\ runPc = "prompt"
    /\ readerPc = "read"
    /\ \E b \in PromptBytes :
          /\ promptAction(b) # "none"
          /\ promptAction(b) \in {"Retry", "Next"} => sessionsLeft > 0
          /\ promptKey' = b
          /\ action' = promptAction(b)
    /\ runPc' = "switch"
    /\ UNCHANGED <<termWidth, frame>>
    /\ UNCHANGED <<readerPc, args, config, runTarget, terminal, acquireCount, restoreCount,
                   deferred, err, stderr, exitCode, discarded, sessionsLeft>>
    /\ UNCHANGED sessionVars

(* main.go:76-77 and 54-55: ActionExit *)
LoopExit ==
    /\ runPc = "switch"
    /\ action = "Exit"
    /\ err' = "nil"
    /\ runPc' = "return"
    /\ promptKey' = 0
    /\ UNCHANGED <<termWidth, frame>>
    /\ UNCHANGED <<readerPc, args, config, runTarget, terminal, acquireCount, restoreCount,
                   deferred, stderr, exitCode, action, discarded, sessionsLeft>>
    /\ UNCHANGED sessionVars

(* main.go:78-79: ActionRetry, the next iteration of runSessionLoop's loop *)
LoopRetry ==
    /\ runPc = "switch"
    /\ action = "Retry"
    /\ runPc' = "newState"
    /\ promptKey' = 0
    /\ UNCHANGED <<termWidth, frame>>
    /\ UNCHANGED <<readerPc, args, config, runTarget, terminal, acquireCount, restoreCount,
                   deferred, err, stderr, exitCode, action, discarded,
                   sessionsLeft>>
    /\ UNCHANGED sessionVars

(* main.go:80-81 and 47-48: ActionNext, the next iteration of run's loop *)
LoopNext ==
    /\ runPc = "switch"
    /\ action = "Next"
    /\ runPc' = "getText"
    /\ promptKey' = 0
    /\ UNCHANGED <<termWidth, frame>>
    /\ UNCHANGED <<readerPc, args, config, runTarget, terminal, acquireCount, restoreCount,
                   deferred, err, stderr, exitCode, action, discarded,
                   sessionsLeft>>
    /\ UNCHANGED sessionVars

(* run returns: the deferred restore (session.go:86-90) runs *)
RunDeferred ==
    /\ runPc = "return"
    /\ deferred # <<>>
    /\ terminal' = [altScreen |-> FALSE, cursorHidden |-> FALSE, raw |-> FALSE,
                    newlines |-> terminal.newlines + 1]
    /\ restoreCount' = restoreCount + 1
    /\ deferred' = Tail(deferred)
    /\ UNCHANGED <<termWidth, frame>>
    /\ UNCHANGED <<readerPc, runPc, args, config, runTarget, acquireCount, err, stderr,
                   exitCode, action, promptKey, discarded, sessionsLeft>>
    /\ UNCHANGED sessionVars

(* Mutant of RunReturns: run returns past its deferred calls *)
RunReturns_skipsDeferred ==
    /\ runPc = "return"
    /\ runPc' = "main"
    /\ UNCHANGED <<termWidth, frame>>
    /\ UNCHANGED <<readerPc, args, config, runTarget, terminal, acquireCount, restoreCount,
                   deferred, err, stderr, exitCode, action, promptKey, discarded,
                   sessionsLeft>>
    /\ UNCHANGED sessionVars

(* run has returned to main *)
RunReturns ==
    /\ runPc = "return"
    /\ deferred = <<>>
    /\ runPc' = "main"
    /\ UNCHANGED <<termWidth, frame>>
    /\ UNCHANGED <<readerPc, args, config, runTarget, terminal, acquireCount, restoreCount,
                   deferred, err, stderr, exitCode, action, promptKey, discarded,
                   sessionsLeft>>
    /\ UNCHANGED sessionVars

(* main.go:17-20: the error goes to stderr, os.Exit(1) *)
MainError ==
    /\ runPc = "main"
    /\ err # "nil"
    /\ stderr' = Append(stderr, err)
    /\ exitCode' = 1
    /\ runPc' = "exited"
    /\ timerPc' = IF timerPc \in {"none", "exit"} THEN timerPc ELSE "killed"
    /\ readerPc' = IF readerPc = "read" THEN "killed" ELSE readerPc
    /\ UNCHANGED <<termWidth, frame>>
    /\ UNCHANGED <<args, config, runTarget, terminal, acquireCount, restoreCount,
                   deferred, err, action, promptKey, discarded, sessionsLeft>>
    /\ UNCHANGED <<state, lastLineCount, mainPc, key, taken, drainCount,
                   result, displayMutex, deadlineFired, applied, keysLeft>>

(* main.go:17-21: no error, main returns and the process ends with code 0 *)
MainReturns ==
    /\ runPc = "main"
    /\ err = "nil"
    /\ exitCode' = 0
    /\ runPc' = "exited"
    /\ timerPc' = IF timerPc \in {"none", "exit"} THEN timerPc ELSE "killed"
    /\ readerPc' = IF readerPc = "read" THEN "killed" ELSE readerPc
    /\ UNCHANGED <<termWidth, frame>>
    /\ UNCHANGED <<args, config, runTarget, terminal, acquireCount, restoreCount,
                   deferred, err, stderr, action, promptKey, discarded,
                   sessionsLeft>>
    /\ UNCHANGED <<state, lastLineCount, mainPc, key, taken, drainCount,
                   result, displayMutex, deadlineFired, applied, keysLeft>>

Program ==
    \/ ShowVersion
    \/ LoadConfig
    \/ SetupTerminal
    \/ SetupTerminalFails
    \/ ValidateWidth
    \/ WidthUnknown
    \/ GetSessionText
    \/ NewAttempt
    \/ LoopInterrupted
    \/ EnterPrompt
    \/ PromptDrainByte
    \/ PromptDrainDeadline
    \/ PromptIgnores
    \/ PromptDecides
    \/ LoopExit
    \/ LoopRetry
    \/ LoopNext
    \/ RunDeferred
    \/ RunReturns
    \/ MainError
    \/ MainReturns

ProgramNext == Next \/ Program

ProgramSpec == InitProgram /\ [][ProgramNext]_vars

----------------------------------------------------------------------------
(* Scheduling: every step of the two tasks is eventually taken; Go's       *)
(* select picks at random among its ready cases and sync.Mutex hands a     *)
(* starving waiter the lock, hence strong fairness for those; the user     *)
(* (SelectKey, DrainByte) and the ticker owe nothing.                      *)
Fairness ==
    /\ WF_vars(StartSession)
    /\ WF_vars(FirstRender)
    /\ WF_vars(FinishUntimed \/ ExtendText \/ EnterSelect)
    /\ SF_vars(SelectTimeUp)
    /\ WF_vars(ReturnInterrupt \/ StartDrain \/ DoBackspace \/ DoKeystroke)
    /\ WF_vars(DrainTimeout)
    /\ SF_vars(MainLock)
    /\ WF_vars(MainRenderUnlock)
    /\ WF_vars(DeadlineFires)
    /\ SF_vars(TimerTakeDeadline)
    /\ SF_vars(TimerLock)
    /\ WF_vars(TimerRenderUnlock)

FairSpec == InitFair /\ [][Next]_vars /\ Fairness

(* startKeyboardReader, session.go:131-133: os.Stdin.Read returns an error *)
(* (end of input or a failed read) and the goroutine returns; keyChan is   *)
(* neither closed nor sent on again                                        *)
StdinFails ==
    /\ readerPc = "read"
    /\ readerPc' = "returned"
    /\ UNCHANGED <<termWidth, frame>>
    /\ UNCHANGED <<runPc, args, config, runTarget, terminal, acquireCount,
                   restoreCount, deferred, err, stderr, exitCode, action,
                   promptKey, discarded, sessionsLeft>>
    /\ UNCHANGED sessionVars

StdinNext == Next \/ StdinFails

(* One call of runTypingSession during which stdin may fail; the reader    *)
(* owes no fairness: a read may block for ever                             *)
StdinSpec == InitFair /\ [][StdinNext]_vars /\ Fairness

----------------------------------------------------------------------------
(* Shorthands for the properties *)
TextLen == Len(state.sessionText)

(* Go indices below position whose slot is not marked typed *)
UntypedSlots == { i \in 0..(state.position - 1) : ~state.charTyped[i + 1] }

(* Go indices below position typed and wrong *)
TypedErrorSlots ==
    { i \in 0..(state.position - 1) :
        state.charTyped[i + 1] /\ ~state.charCorrectness[i + 1] }

(* The main task is inside handleBackspace / handleKeystroke *)
MainMutating == mainPc = "gotKey" /\ IsHandled(key)

(* C1: 0 <= errors <= chars_typed <= raw_keystrokes in every reachable state *)
C1_CorrectedBounds ==
    /\ 0 <= state.errors
    /\ state.errors <= state.charsTyped
    /\ state.charsTyped <= state.rawKeystrokes

(* C2: 0 <= raw_errors <= raw_keystrokes in every reachable state *)
C2_RawBounds ==
    /\ 0 <= state.rawErrors
    /\ state.rawErrors <= state.rawKeystrokes

(* C3: a Ctrl-C received from keyChan while the session runs is never     *)
(* consumed without ending the session with Interrupt: once received it is *)
(* either being dispatched or the session has returned Interrupt           *)
C3_CtrlCEndsSession ==
    (taken = keyCtrlC /\ mainPc # "gotKey") => result = "Interrupt"

(* C4 as stated: once the deadline has fired the running session ends     *)
(* with Next, whatever keystrokes arrive: it ends, and it ends no other    *)
(* way                                                                     *)
C4_DeadlineEndsWithNext ==
    /\ [][ (deadlineFired /\ result = "running" /\ result' # "running")
             => result' = "Next" ]_vars
    /\ (deadlineFired /\ result = "running") ~> (result = "Next")

(* C4 as amended: once the deadline has fired the running session ends,    *)
(* with Next, or with Interrupt when a Ctrl-C is received first            *)
C4_DeadlineEndsSession ==
    (deadlineFired /\ result = "running")
        ~> (result = "Next" \/ (result = "Interrupt" /\ key = keyCtrlC))

C4_Witness ==
    /\ deadlineFired /\ result = "Next" /\ timerPc = "exit"
    /\ Len(applied) >= 2 /\ state.rawKeystrokes >= 1

(* C5: a render never interleaves with a state mutation: the timer task is *)
(* never inside displayProgress while the main task is inside a handler    *)
C5_RenderNeverInterleaves ==
    ~(timerPc = "render" /\ MainMutating)

(* C6: in a word-count session a text of length n can be typed correctly   *)
(* up to its last character, that one mistyped, backspaced and typed       *)
(* correctly: the session has not returned Next after the mistyped byte,   *)
(* and after the whole input chars_typed = n, errors = 0,                  *)
(* raw_keystrokes = n+1, raw_errors = 1, backspace_count = 1 and every     *)
(* slot is correct                                                         *)
LastMistyped(text, w) ==
    SubSeq(text, 1, Len(text) - 1) \o <<w>>

TypoThenCorrection(text, w) ==
    LastMistyped(text, w) \o <<keyBackspace, text[Len(text)]>>

C6_TypoThenCorrection ==
    \A w \in WrongByte \cup {keyEnter} :
       /\ (~state.isTimedMode /\ applied = LastMistyped(state.sessionText, w))
          => result # "Next"
       /\ (~state.isTimedMode /\ applied = TypoThenCorrection(state.sessionText, w))
          => /\ state.charsTyped = TextLen
             /\ state.errors = 0
             /\ state.rawKeystrokes = TextLen + 1
             /\ state.rawErrors = 1
             /\ state.backspaceCount = 1
             /\ state.position = TextLen
             /\ \A i \in 1..TextLen : state.charCorrectness[i]

(* C7: a space that skips to the next word, with a separator at Go index s *)
(* ahead, leaves position = s+1 and slot s marked correct and typed        *)
C7_SkipMarksSeparator ==
    [][ ( /\ mainPc = "gotKey" /\ key = keySpace
          /\ state.position < TextLen
          /\ state.sessionText[state.position + 1] # keySpace
          /\ canSkipWord(state)
          /\ SpacesAhead(state) # {}
          /\ mainPc' = "lock" )
        => LET s == Minimum(SpacesAhead(state))
           IN /\ state'.position = s + 1
              /\ state'.charCorrectness[s + 1]
              /\ state'.charTyped[s + 1] ]_vars

(* C8: every slot below position that is not typed is marked incorrect and *)
(* stands for one raw_errors increment and no errors increment: errors     *)
(* counts the typed wrong slots only, and raw_errors covers those and one  *)
(* per untyped slot                                                        *)
C8_SkipAttribution ==
    /\ \A i \in UntypedSlots : ~state.charCorrectness[i + 1]
    /\ state.errors = Cardinality(TypedErrorSlots)
    /\ state.rawErrors >= Cardinality(TypedErrorSlots) + Cardinality(UntypedSlots)

C10_UntimedEnd ==
    ~state.isTimedMode =>
      /\ result = "Next" => state.position >= TextLen
      /\ state.position >= TextLen => mainPc \in {"lock", "render", "loop", "done"}
      /\ (state.position >= TextLen /\ mainPc = "done") => result = "Next"

C10_Witness ==
    /\ ~state.isTimedMode
    /\ state.position = TextLen
    /\ mainPc = "done" /\ result = "Next"
    /\ Len(applied) >= 3

(* C11: a word-count session fed exactly the bytes of its text ends with   *)
(* Next and nothing else: no byte is received after the last one, and the  *)
(* state has errors = 0, raw_errors = 0, chars_typed = raw_keystrokes = n, *)
(* backspace_count = 0, every slot correct, accuracy = raw_accuracy = 100  *)
C11_PerfectRun ==
    (~state.isTimedMode /\ applied = state.sessionText) =>
      /\ mainPc \in {"lock", "render", "loop", "done"}
      /\ result \in {"running", "Next"}
      /\ mainPc = "done" => result = "Next"
      /\ state.errors = 0
      /\ state.rawErrors = 0
      /\ state.charsTyped = TextLen
      /\ state.rawKeystrokes = TextLen
      /\ state.backspaceCount = 0
      /\ \A i \in 1..TextLen : state.charCorrectness[i]
      /\ Same(NewResults(state).Accuracy, Whole(100))
      /\ Same(NewResults(state).RawAccuracy, Whole(100))
      /\ NewResults(state).CorrectChars = TextLen

(* a text of two words has been typed through and the session returned *)
C11_Witness ==
    /\ ~state.isTimedMode
    /\ applied = state.sessionText
    /\ \E i \in 1..TextLen : state.sessionText[i] = keySpace
    /\ mainPc = "done" /\ result = "Next"

(* The handlers of the loop (session.go:241-252) applied to a byte sequence *)
RECURSIVE ApplyAll(_, _)
ApplyAll(s, bytes) ==
    IF bytes = <<>> THEN s
    ELSE ApplyAll(IF isBackspace(bytes[1]) THEN handleBackspace(s)
                  ELSE handleKeystroke(s, bytes[1]),
                  Tail(bytes))

(* C12: when an attempt ends with Interrupt the controller leaves without  *)
(* the prompt and without another attempt (run returns no error and the    *)
(* process ends with code 0), and the state is the one the bytes applied   *)
(* before Ctrl-C left, from then on unchanged: two correct bytes of a      *)
(* longer text give chars_typed = 2, errors = 0, raw_keystrokes = 2        *)
C12_InterruptExits ==
    /\ [] ( result = "Interrupt" =>
              /\ runPc \in {"session", "return", "main", "exited"}
              /\ action \in {"none", "Retry", "Next", "Interrupt"}
              /\ runPc # "session" => action = "Interrupt"
              /\ promptKey = 0 /\ discarded = 0
              /\ err = "nil" /\ stderr = <<>>
              /\ exitCode \in {NoExit, 0}
              /\ (runPc = "session" /\ ~state.isTimedMode)
                    => state = ApplyAll(newTypingState(runTarget, FALSE), applied)
              /\ ( /\ runPc = "session"
                   /\ Len(runTarget) >= 3
                   /\ applied = SubSeq(runTarget, 1, 2) )
                    => /\ state.charsTyped = 2
                       /\ state.errors = 0
                       /\ state.rawKeystrokes = 2 )
    /\ [][ result = "Interrupt" =>
             /\ result' = "Interrupt"
             /\ state' = state
             /\ sessionsLeft' = sessionsLeft
             /\ runTarget' = runTarget ]_vars

(* the process has ended after Ctrl-C followed two correct bytes *)
C12_Witness ==
    /\ runPc = "exited" /\ exitCode = 0
    /\ result = "Interrupt"
    /\ Len(state.sessionText) >= 3
    /\ state.position = 2
    /\ state.charsTyped = 2 /\ state.errors = 0 /\ state.rawKeystrokes = 2
    /\ restoreCount = 1

(* The decision table of the prompt: n N 10 13 Next, r R Retry, q Q 3 Exit *)
PromptTable(b) ==
    IF b \in {110, 78, 10, 13} THEN "Next"
    ELSE IF b \in {114, 82} THEN "Retry"
    ELSE IF b \in {113, 81, 3} THEN "Exit"
    ELSE "none"

(* C13: at the prompt, after the drain, a byte of n N 10 13 returns Next,  *)
(* of r R Retry, of q Q 3 Exit; any other byte is consumed and changes     *)
(* nothing else, the prompt goes on waiting; the bytes the drain consumes  *)
(* decide nothing                                                          *)
C13_PromptDecision ==
    /\ [] ( runPc = "prompt" => \A b \in 0..255 : promptAction(b) = PromptTable(b) )
    /\ [][ runPc = "prompt" =>
             IF PromptTable(promptKey') # "none"
             THEN /\ action' = PromptTable(promptKey')
                  /\ runPc' = "switch"
             ELSE /\ runPc' = "prompt"
                  /\ UNCHANGED <<sessionVars, termWidth, frame, args, config, runTarget, terminal,
                                 acquireCount, restoreCount, deferred, err, stderr,
                                 exitCode, action, discarded, sessionsLeft,
                                 readerPc>> ]_vars
    /\ [][ runPc = "promptDrain" =>
             /\ runPc' \in {"promptDrain", "prompt"}
             /\ action' = action /\ promptKey' = promptKey ]_vars

(* Return (13) has just decided Next *)
C13_Witness ==
    /\ runPc = "switch"
    /\ promptKey = keyReturn
    /\ action = "Next"
    /\ result = "Next"

(* text is a prefix of longer *)
IsPrefix(text, longer) ==
    Len(text) <= Len(longer) /\ text = SubSeq(longer, 1, Len(text))

(* C14: every attempt starts with a fresh TypingState on run's target      *)
(* (position 0, the five counters and backspace_count 0, both arrays all   *)
(* false); run's target changes only when a text is generated, so after    *)
(* Retry the text is the previous attempt's as generated, without the      *)
(* extension of timed mode; after Next the text is one getSessionText      *)
(* generates                                                               *)
C14_RetryAndNext ==
    /\ [][ (runPc = "newState" /\ runPc' = "session") =>
             /\ state'.sessionText = runTarget
             /\ state'.position = 0
             /\ state'.errors = 0 /\ state'.rawErrors = 0
             /\ state'.charsTyped = 0 /\ state'.rawKeystrokes = 0
             /\ state'.backspaceCount = 0
             /\ state'.charCorrectness = [i \in 1..Len(runTarget) |-> FALSE]
             /\ state'.charTyped = [i \in 1..Len(runTarget) |-> FALSE]
             /\ action = "Retry" =>
                   /\ IsPrefix(state'.sessionText, state.sessionText)
                   /\ ~state.isTimedMode => state'.sessionText = state.sessionText
                   /\ state'.isTimedMode = state.isTimedMode ]_vars
    /\ [][ runPc # "getText" => runTarget' = runTarget ]_vars
    /\ [][ runPc = "switch" =>
             /\ action = "Retry" => runPc' = "newState"
             /\ action = "Next" => runPc' = "getText"
             /\ action = "Exit" => runPc' = "return" ]_vars
    /\ [][ (runPc = "getText" /\ runPc' = "newState") =>
             runTarget' \in getSessionText(config).texts ]_vars

(* a timed attempt has been retried after a key was typed *)
C14_Witness ==
    /\ runPc = "session" /\ mainPc = "start"
    /\ action = "Retry"
    /\ state.isTimedMode
    /\ keysLeft < MaxProgramKeys
    /\ state = newTypingState(runTarget, TRUE)

(* C15: Enter (byte 10 or 13) received during typing changes no field of   *)
(* the TypingState: at every receive, the loop's dispatch of either code   *)
(* (lines 229-252) leaves the state as it was                              *)
C15_EnterIgnored ==
    mainPc = "select" =>
      \A e \in {keyEnter, keyReturn} :
         (IF isInterrupt(e) \/ e = keyEscape THEN state
          ELSE IF isBackspace(e) THEN handleBackspace(state)
          ELSE handleKeystroke(state, e)) = state

(* C16: in timed mode the loop never waits with position = len: when it  *)
(* comes to the wait at the end of the text it first appends one space and *)
(* ExtensionWords words; the old text is a prefix of the new one, both     *)
(* arrays are as long as the text, their old entries are unchanged and     *)
(* their new entries false, nothing else of the state changes, and         *)
(* position < len at the wait                                              *)
C16_TimedExtension ==
    /\ [] ( /\ Len(state.charCorrectness) = TextLen
            /\ Len(state.charTyped) = TextLen
            /\ (state.isTimedMode /\ mainPc = "select") => state.position < TextLen )
    /\ [][ ( /\ mainPc = "loop" /\ mainPc' # "loop"
             /\ state.isTimedMode /\ state.position = TextLen ) =>
             /\ mainPc' = "select"
             /\ \E words \in NewWordChoices :
                   state'.sessionText
                     = state.sessionText \o <<32>> \o JoinWords(words)
             /\ Len(state'.charCorrectness) = Len(state'.sessionText)
             /\ Len(state'.charTyped) = Len(state'.sessionText)
             /\ \A i \in 1..TextLen :
                   /\ state'.charCorrectness[i] = state.charCorrectness[i]
                   /\ state'.charTyped[i] = state.charTyped[i]
             /\ \A i \in (TextLen + 1)..Len(state'.sessionText) :
                   /\ ~state'.charCorrectness[i]
                   /\ ~state'.charTyped[i]
             /\ state' = [ state EXCEPT
                             !.sessionText = state'.sessionText,
                             !.charCorrectness = state'.charCorrectness,
                             !.charTyped = state'.charTyped ]
             /\ state'.position < Len(state'.sessionText) ]_vars

(* the timed text "a b" was typed through and extended before the wait *)
C16_Witness ==
    /\ state.isTimedMode /\ mainPc = "select"
    /\ IsPrefix(runTarget, state.sessionText)
    /\ TextLen > Len(runTarget)
    /\ state.position = Len(runTarget)
    /\ \A i \in 1..Len(runTarget) : state.charCorrectness[i] /\ state.charTyped[i]
    /\ \E i \in 1..Len(runTarget) : runTarget[i] = keySpace

(* C17: in every reachable state the accuracy and the raw accuracy that    *)
(* NewResults computes lie in [0, 100], and each is 0 when its keystroke   *)
(* count (chars_typed, raw_keystrokes) is 0                                *)
C17_AccuracyDomain ==
    LET r == NewResults(state)
    IN /\ ~Below(r.Accuracy, Whole(0)) /\ ~Below(Whole(100), r.Accuracy)
       /\ ~Below(r.RawAccuracy, Whole(0)) /\ ~Below(Whole(100), r.RawAccuracy)
       /\ state.charsTyped = 0 => Same(r.Accuracy, Whole(0))
       /\ state.rawKeystrokes = 0 => Same(r.RawAccuracy, Whole(0))

(* a session has ended with more raw errors than keystrokes: the raw       *)
(* quotient is negative                                                    *)
C17_Witness ==
    /\ mainPc = "done" /\ result = "Next"
    /\ state.rawKeystrokes > 0
    /\ state.rawErrors > state.rawKeystrokes
    /\ state.charsTyped > 0 /\ state.errors = 0

(* C18: no transition decreases raw_keystrokes or raw_errors, and the      *)
(* loop's step on a backspace leaves both as they were                     *)
C18_RawCountersMonotonic ==
    [][ /\ state'.rawKeystrokes >= state.rawKeystrokes
        /\ state'.rawErrors >= state.rawErrors
        /\ (mainPc = "gotKey" /\ isBackspace(key)) =>
              /\ state'.rawKeystrokes = state.rawKeystrokes
              /\ state'.rawErrors = state.rawErrors ]_vars

(* two wrong bytes have been taken back by two backspaces *)
C18_Witness ==
    /\ mainPc = "lock" /\ key = keyBackspace
    /\ state.backspaceCount = 2
    /\ state.position = 0
    /\ state.errors = 0
    /\ state.rawErrors = 2 /\ state.rawKeystrokes = 2

(* C19: the restore runs at most once and only after the terminal was      *)
(* acquired; once the terminal was acquired, nothing is written to stderr  *)
(* and the process does not end before the restore has run once, leaving   *)
(* raw mode, the alternate screen and the hidden cursor off and one        *)
(* newline printed                                                         *)
C19_RestoreOnce ==
    /\ restoreCount <= acquireCount /\ acquireCount <= 1
    /\ (acquireCount = 1 /\ (stderr # <<>> \/ runPc \in {"main", "exited"})) =>
          /\ restoreCount = 1
          /\ terminal = [altScreen |-> FALSE, cursorHidden |-> FALSE,
                         raw |-> FALSE, newlines |-> 1]
    /\ runPc = "exited" => exitCode = (IF stderr = <<>> THEN 0 ELSE 1)
    /\ Len(stderr) <= 1

(* the process has ended with an error written after the restore, on the   *)
(* text-source path                                                        *)
C19_Witness ==
    /\ runPc = "exited" /\ exitCode = 1
    /\ stderr = <<"failed to load session text">>
    /\ acquireCount = 1 /\ restoreCount = 1
    /\ ~terminal.raw /\ ~terminal.altScreen /\ ~terminal.cursorHidden

(* A command line the spec calls invalid: -w 0, or a text source other     *)
(* than words and sentences                                                *)
InvalidConfig(a) ==
    \/ a.w = <<0>>
    \/ a.s # <<>> /\ a.s[1] \notin {"words", "sentences"}

(* C20: with an invalid command line the configuration is rejected when it *)
(* is parsed: run never gets past loadConfig, the terminal is not          *)
(* acquired, no attempt starts, and the process ends with exit code 1      *)
C20_InvalidConfigRejected ==
    InvalidConfig(args) =>
      /\ runPc \in {"loadConfig", "return", "main", "exited"}
      /\ acquireCount = 0
      /\ ~terminal.raw /\ ~terminal.altScreen
      /\ mainPc = "idle"
      /\ runPc = "exited" => exitCode = 1

----------------------------------------------------------------------------
(* One call of displayProgress.  The texts are those of the sentence       *)
(* source: one sentence in word-count mode, sentences joined by spaces in  *)
(* timed mode                                                              *)
Sentences ==
    << << 84, 104, 101, 32, 113, 117, 105, 99, 107, 32, 98, 114, 111, 119,
          110, 32, 102, 111, 120, 32, 106, 117, 109, 112, 115, 32, 111,
          118, 101, 114, 32, 116, 104, 101, 32, 108, 97, 122, 121, 32, 100,
          111, 103, 46 >>,
       << 80, 97, 99, 107, 32, 109, 121, 32, 98, 111, 120, 32, 119, 105,
          116, 104, 32, 102, 105, 118, 101, 32, 100, 111, 122, 101, 110,
          32, 108, 105, 113, 117, 111, 114, 32, 106, 117, 103, 115, 46 >>,
       << 72, 111, 119, 32, 118, 101, 120, 105, 110, 103, 108, 121, 32,
          113, 117, 105, 99, 107, 32, 100, 97, 102, 116, 32, 122, 101, 98,
          114, 97, 115, 32, 106, 117, 109, 112, 33 >>,
       << 83, 112, 104, 105, 110, 120, 32, 111, 102, 32, 98, 108, 97, 99,
          107, 32, 113, 117, 97, 114, 116, 122, 44, 32, 106, 117, 100, 103,
          101, 32, 109, 121, 32, 118, 111, 119, 46 >> >>

RenderWidths == minWidth..MaxRenderWidth

(* The TypingState once every character before index p is typed as it    *)
(* stands in the text: handleKeystroke for each, in order; the range is    *)
(* halved so that the evaluation stays shallow                             *)
RECURSIVE TypedAhead(_, _)
TypedAhead(s, p) ==
    IF s.position >= p THEN s
    ELSE IF s.position = p - 1
         THEN handleKeystroke(s, s.sessionText[s.position + 1])
         ELSE TypedAhead(TypedAhead(s, (s.position + p) \div 2), p)

(* The main task holds the mutex and is about to call displayProgress *)
InitRender ==
    /\ \E timed \in BOOLEAN :
         LET text == IF timed
                     THEN JoinWords(SubSeq(Sentences, 1, RenderSentences))
                     ELSE Sentences[1]
         IN \E p \in 0..Len(text) :
               /\ state = TypedAhead(newTypingState(text, timed), p)
               /\ applied = SubSeq(text, 1, p)
               /\ key = IF p = 0 THEN 0 ELSE text[p]
               /\ timerPc = IF timed THEN "select" ELSE "none"
    /\ taken = key
    /\ mainPc = IF applied = <<>> THEN "firstRender" ELSE "render"
    /\ displayMutex = IF applied = <<>> THEN "free" ELSE "main"
    /\ keysLeft = 0
    /\ drainCount = 0
    /\ result = "running"
    /\ deadlineFired = FALSE
    /\ termWidth \in RenderWidths
    /\ lastLineCount =
          IF applied = <<>> THEN 0
          ELSE renderedLineCount(TypedAhead(newTypingState(state.sessionText,
                                                           state.isTimedMode),
                                            Len(applied) - 1), termWidth)
    /\ frame = NoFrame
    /\ InSessionWith(IF state.isTimedMode
                     THEN [ NoArgs EXCEPT !.s = <<"sentences">>, !.t = <<1>> ]
                     ELSE [ NoArgs EXCEPT !.s = <<"sentences">>, !.w = <<1>> ])

(* The values time.Since(state.startTime) takes in the call followed: up  *)
(* to two seconds, on and next to the whole milliseconds and seconds       *)
ElapsedTimes ==
    { whole * Second + offset :
        whole \in 0..1,
        offset \in UNION { { j, Millisecond - j, Millisecond + j, Second - j } :
                            j \in 0..ClockGrain } }

(* displayProgress: the timer line of timed mode (lines 46-48), the wrap   *)
(* and the window (lines 50-53), the line count (lines 60-63)              *)
DisplayProgress ==
    /\ mainPc \in {"firstRender", "render"}
    /\ frame = NoFrame
    /\ \E elapsed \in (IF state.isTimedMode THEN ElapsedTimes ELSE {0}) :
          frame' = The({ [ lines     |-> shown.lines,
                           startLine |-> shown.startLine,
                           endLine   |-> shown.endLine,
                           elapsed   |-> elapsed,
                           timerLine |-> IF state.isTimedMode
                                         THEN <<formatTimer(timeLimit, elapsed)>>
                                         ELSE <<>> ] :
                         shown \in { displayProgress(state, termWidth) } })
    /\ lastLineCount' = renderedLineCount(state, termWidth)
    /\ UNCHANGED <<state, mainPc, key, taken, drainCount, result, displayMutex,
                   timerPc, deadlineFired, applied, keysLeft>>
    /\ UNCHANGED runVars

RenderNext == DisplayProgress

RenderSpec == InitRender /\ [][RenderNext]_vars

(* The source indices of the frame's lines, line after line *)
RECURSIVE AllIndices(_)
AllIndices(lines) ==
    IF lines = <<>> THEN <<>>
    ELSE lines[1].charIndices \o AllIndices(Tail(lines))

(* The source indices no line of the frame shows *)
Absorbed ==
    LET indices == AllIndices(frame.lines)
    IN (0..(TextLen - 1)) \ { indices[j] : j \in 1..Len(indices) }

(* The source indices that come right after the last character of a line   *)
(* that has no room for one more                                           *)
AfterFullLine ==
    { frame.lines[k].charIndices[Len(frame.lines[k].charIndices)] + 1 :
        k \in { n \in 1..Len(frame.lines) :
                  /\ frame.lines[n].charIndices # <<>>
                  /\ Len(frame.lines[n].content) + 1 > termWidth - cursorWidth } }

(* C23 as stated: every source index i in [0, len(session_text)) appears   *)
(* exactly once across the char_indices of the wrapped lines, in           *)
(* increasing order                                                        *)
C23_WrapTotality ==
    frame # NoFrame =>
       AllIndices(frame.lines) = [ j \in 1..TextLen |-> j - 1 ]

(* C23: every source index appears at most once and the indices appear in  *)
(* increasing order, each with its character; the only indices that do     *)
(* not appear are those of the spaces absorbed at a wrap: a space that     *)
(* comes right after the last character of a line and finds no room on it  *)
C23_WrapTotalityButAbsorbed ==
    frame # NoFrame =>
       LET indices == AllIndices(frame.lines)
       IN /\ \A j \in 1..Len(indices) : indices[j] \in 0..(TextLen - 1)
          /\ \A j \in 1..(Len(indices) - 1) : indices[j] < indices[j + 1]
          /\ \A k \in 1..Len(frame.lines) :
                /\ Len(frame.lines[k].content) = Len(frame.lines[k].charIndices)
                /\ \A j \in 1..Len(frame.lines[k].content) :
                      frame.lines[k].content[j] =
                         state.sessionText[frame.lines[k].charIndices[j] + 1]
          /\ Absorbed = { i \in AfterFullLine \cap 0..(TextLen - 1) :
                            state.sessionText[i + 1] = keySpace }

(* a frame of several lines with an absorbed space *)
C23_Witness ==
    /\ frame # NoFrame
    /\ Len(frame.lines) > 1
    /\ Absorbed # {}

(* The lines of the frame that carry the cursor mark *)
CursorLines == { k \in 1..Len(frame.lines) : frame.lines[k].hasCursor }

(* C24: the rendered window [start, end) has exactly min(3, number of      *)
(* lines) lines, and the line on which the cursor is displayed lies        *)
(* inside the window                                                       *)
C24_VisibleWindow ==
    frame # NoFrame =>
       /\ frame.endLine - frame.startLine =
             (IF Len(frame.lines) < 3 THEN Len(frame.lines) ELSE 3)
       /\ 0 <= frame.startLine /\ frame.endLine <= Len(frame.lines)
       /\ \E k \in CursorLines : frame.startLine < k /\ k <= frame.endLine

(* C30: for every text, line width and position p in [0, len], exactly one *)
(* wrapped line has has_cursor; on that line cursor_position is the column *)
(* whose source index is p, or the length of the last line when p = len    *)
C30_CursorPlacement ==
    frame # NoFrame =>
       /\ Cardinality(CursorLines) = 1
       /\ \A k \in CursorLines :
             LET line == frame.lines[k]
             IN IF state.position = TextLen
                THEN /\ k = Len(frame.lines)
                     /\ line.cursorPosition = Len(line.content)
                ELSE /\ line.cursorPosition < Len(line.content)
                     /\ line.charIndices[line.cursorPosition + 1] = state.position

(* C25: when TimeUp and a keystroke are both ready at the select, TimeUp   *)
(* is the event accepted: the step the main task takes there ends the      *)
(* session with Next and applies no keystroke; and once TimeUp is accepted *)
(* no further keystroke is applied to the state                            *)
C25_TimeUpPriority ==
    [][ /\ (mainPc = "select" /\ TimeUpReady /\ mainPc' # mainPc) =>
              (mainPc' = "done" /\ result' = "Next" /\ UNCHANGED <<state, applied>>)
        /\ (state.isTimedMode /\ result = "Next") =>
              UNCHANGED <<state, applied>> ]_vars

(* C26: the timer task exits when the session ends: after the session has *)
(* ended by TimeUp or by Interrupt the timer task takes no further step    *)
(* towards a render (no tick taken, no lock, no displayProgress), and it   *)
(* offers time_up at most once                                             *)
C26_TimerExits ==
    [][ /\ (state.isTimedMode /\ result \in {"Next", "Interrupt"}) =>
              (timerPc' = timerPc \/ timerPc' \in {"exit", "killed", "none"})
        /\ timerPc = "exit" => timerPc' \in {"exit", "none"} ]_vars

(* A space is due to be handled while the cursor stands inside a word:     *)
(* neither the character at position nor the one before it is a space      *)
SpaceMidWord ==
    /\ mainPc = "gotKey" /\ key = keySpace
    /\ state.position > 0 /\ state.position < TextLen
    /\ state.sessionText[state.position + 1] # keySpace
    /\ state.sessionText[state.position] # keySpace

(* C27: a space received mid-word sets correctness[j] = false and leaves   *)
(* typed[j] = false for every j from position up to (excluding) the next   *)
(* space or the end of text, adds exactly that number of slots to          *)
(* raw_errors, leaves errors unchanged, adds 1 to chars_typed and to       *)
(* raw_keystrokes, and sets position to one past the next space, or to     *)
(* len(session_text) if there is none                                      *)
C27_SkipToNextWord ==
    [][ (SpaceMidWord /\ mainPc' # mainPc) =>
          LET limit == IF SpacesAhead(state) # {}
                       THEN Minimum(SpacesAhead(state)) ELSE TextLen
          IN /\ \A j \in state.position..(limit - 1) :
                   /\ ~state'.charCorrectness[j + 1]
                   /\ ~state.charTyped[j + 1] /\ ~state'.charTyped[j + 1]
             /\ state'.rawErrors = state.rawErrors + (limit - state.position)
             /\ state'.errors = state.errors
             /\ state'.charsTyped = state.charsTyped + 1
             /\ state'.rawKeystrokes = state.rawKeystrokes + 1
             /\ state'.position = (IF limit < TextLen THEN limit + 1 ELSE TextLen)
             /\ state'.sessionText = state.sessionText ]_vars

(* "foo bar": f, then a space: the two slots of "oo" are skipped *)
C27_Witness ==
    /\ mainPc = "lock" /\ key = keySpace
    /\ applied = <<102, keySpace>>
    /\ state.sessionText = <<102, 111, 111, 32, 98, 97, 114>>
    /\ state.position = 4
    /\ state.rawErrors = 2 /\ state.errors = 0
    /\ state.charsTyped = 2 /\ state.rawKeystrokes = 2

(* Printable bytes other than the space: the wrong byte and the letters of *)
(* the text                                                                *)
PrintableBytes ==
    (WrongByte \cup { state.sessionText[i] : i \in 1..TextLen }) \ {keySpace}

(* C28: a printable non-space byte applied when position =                 *)
(* len(session_text) is a no-op: handleKeystroke leaves every field of the *)
(* TypingState as it was                                                   *)
C28_EndOfTextNoOp ==
    (mainPc # "idle" /\ state.position = TextLen) =>
       \A b \in PrintableBytes : handleKeystroke(state, b) = state

(* A space is due to be handled at the start of a word: the character at  *)
(* position is not a space and the cursor is not mid-word                  *)
SpaceAtWordStart ==
    /\ mainPc = "gotKey" /\ key = keySpace
    /\ state.position < TextLen
    /\ state.sessionText[state.position + 1] # keySpace
    /\ (state.position = 0 \/ state.sessionText[state.position] = keySpace)

(* C29: a space received when session_text[position] is not a space and   *)
(* the cursor is not mid-word does not advance: position, errors,          *)
(* raw_errors and both arrays are unchanged, while chars_typed and         *)
(* raw_keystrokes each increase by exactly 1                               *)
C29_RejectedSpace ==
    [][ (SpaceAtWordStart /\ mainPc' # mainPc) =>
          state' = [ state EXCEPT !.charsTyped = @ + 1,
                                  !.rawKeystrokes = @ + 1 ] ]_vars

(* "a b": a, the space, and a second space at the start of "b" *)
C29_Witness ==
    /\ mainPc = "lock" /\ key = keySpace
    /\ applied = <<97, keySpace, keySpace>>
    /\ state.sessionText = <<97, 32, 98>>
    /\ state.position = 2
    /\ state.charsTyped = 3 /\ state.rawKeystrokes = 3
    /\ state.errors = 0 /\ state.rawErrors = 0

(* The values -t and -w can be given, or left out, on a command line *)
FlagInts == {<<>>, <<0 - 1>>, <<0>>, <<1>>, <<2>>}

(* The mode the flags of command line a ask for, and Config c *)
ModeSelected(a, c) ==
    LET t == FlagValue(a.t, 0)
        w == FlagValue(a.w, 0)
    IN /\ (c.TimeSeconds > 0) <=> (t > 0 \/ ~(w > 0))
       /\ t > 0 => c.TimeSeconds = t
       /\ (~(t > 0) /\ w > 0) => (c.TimeSeconds = 0 /\ c.WordCount = w)
       /\ (~(t > 0) /\ ~(w > 0)) => c.TimeSeconds = 30

C22_StdinEofInterrupts ==
    (readerPc = "returned" /\ result = "running") ~> (result = "Interrupt")

----------------------------------------------------------------------------
(* C34: in every reachable state errors is the number of slots below the   *)
(* position that are typed and not correct; a skipped slot (not typed) is  *)
(* not among them, and so errors is never negative                         *)
C34_ErrorsCountTypedWrong == state.errors = Cardinality(TypedErrorSlots)

(* a wrong character, a skipped word and a backspace have all happened:    *)
(* a typed wrong slot and a skipped slot both lie below the position       *)
C34_Witness ==
    /\ state.errors > 0
    /\ state.backspaceCount > 0
    /\ UntypedSlots # {}
    /\ \E i \in 1..Len(applied) : applied[i] = keySpace

(* The three keystroke counters of a TypingState *)
Counters(s) == <<s.charsTyped, s.rawKeystrokes, s.backspaceCount>>

(* C35: chars_typed = raw_keystrokes - backspace_count in every reachable  *)
(* state; a byte handled as a keystroke raises chars_typed and             *)
(* raw_keystrokes by 1, a backspace above position 0 lowers chars_typed    *)
(* by 1 and raises backspace_count by 1, a backspace at position 0 and     *)
(* every other step change none of the three                               *)
C35_CharsTypedBalance ==
    [][ /\ state.charsTyped = state.rawKeystrokes - state.backspaceCount
        /\ state'.charsTyped = state'.rawKeystrokes - state'.backspaceCount
        /\ IF mainPc = "gotKey" /\ mainPc' = "lock" /\ ~isBackspace(key)
           THEN Counters(state') = <<state.charsTyped + 1, state.rawKeystrokes + 1,
                                     state.backspaceCount>>
           ELSE IF mainPc = "gotKey" /\ mainPc' = "lock" /\ state.position > 0
           THEN Counters(state') = <<state.charsTyped - 1, state.rawKeystrokes,
                                     state.backspaceCount + 1>>
           ELSE Counters(state') = Counters(state) ]_vars

(* the first byte was a backspace (at position 0), later ones were a       *)
(* keystroke and a backspace that counted                                  *)
C35_Witness ==
    /\ Len(applied) > 0 /\ isBackspace(applied[1])
    /\ state.backspaceCount > 0
    /\ state.rawKeystrokes > state.backspaceCount

(* C36: in every reachable state every slot at an index i >= position is   *)
(* clear, typed[i] = false and correctness[i] = false: a backspace clears  *)
(* the slot it leaves and an extension adds clear slots only               *)
C36_SlotsAheadClear ==
    \A i \in state.position..(TextLen - 1) :
        ~state.charTyped[i + 1] /\ ~state.charCorrectness[i + 1]

(* the last byte handled was a backspace over a correctly typed slot,    *)
(* which lies at the position again                                        *)
C36_Witness ==
    /\ ~state.isTimedMode
    /\ Len(applied) > 1
    /\ isBackspace(applied[Len(applied)])
    /\ LET before == ApplyAll(newTypingState(state.sessionText, FALSE),
                              SubSeq(applied, 1, Len(applied) - 1))
       IN /\ before.position = state.position + 1
          /\ before.charTyped[before.position]
          /\ before.charCorrectness[before.position]

(* C38: in every reachable state a slot whose correctness flag is set has  *)
(* its typed flag set too, so the count of correct characters that         *)
(* NewResults takes for the WPM counts typed slots only, no skipped one    *)
C38_CorrectImpliesTyped ==
    /\ \A i \in 1..TextLen : state.charCorrectness[i] => state.charTyped[i]
    /\ countCorrectChars(state) =
          Cardinality({ i \in 0..(state.position - 1) :
                          state.charTyped[i + 1] /\ state.charCorrectness[i + 1] })
    /\ countCorrectChars(state) + Cardinality(UntypedSlots) <= state.position

(* correct characters and skipped slots both lie below the position *)
C38_Witness ==
    /\ countCorrectChars(state) > 1
    /\ Cardinality(UntypedSlots) > 1

(* C33: the main task is the only task that writes a field of the          *)
(* TypingState, lastLineCount included: a step that changes one is a step  *)
(* of runTypingSession, never one of the timer goroutine                   *)
C33_MainOnlyWriter ==
    [][ (state' # state \/ lastLineCount' # lastLineCount) => mainPc' # mainPc ]_vars

(* The typing fields of a TypingState *)
TypingFields(s) ==
    <<s.position, s.sessionText, s.charTyped, s.charCorrectness, s.errors,
      s.charsTyped, s.rawErrors, s.rawKeystrokes, s.backspaceCount>>

(* C32: a Tick and an ESC byte change no typing field.  No step of the     *)
(* timer goroutine does, and none the main task takes from the receipt of  *)
(* an ESC to its next iteration: the drain takes at most maxEscapeLen      *)
(* bytes, hands none to a handler, and the next iteration extends no text  *)
C32_TickAndEscape ==
    [][ /\ (timerPc' # timerPc /\ mainPc' = mainPc)
              => /\ TypingFields(state') = TypingFields(state)
                 /\ UNCHANGED <<key, taken, result, applied, keysLeft>>
        /\ ( /\ (mainPc = "gotKey" /\ key = keyEscape) \/ mainPc = "drain"
             /\ mainPc' # mainPc \/ drainCount' # drainCount )
              => /\ TypingFields(state') = TypingFields(state)
                 /\ UNCHANGED <<applied, lastLineCount, keysLeft>>
                 /\ drainCount < maxEscapeLen
                 /\ mainPc' # mainPc => mainPc' \in {"drain", "loop"}
                 /\ mainPc' = "loop" => ~AtEndOfText(state') ]_vars

(* typing has begun, an ESC has had maxEscapeLen - 1 bytes drained after   *)
(* it, and the timer goroutine is inside the render of a tick              *)
C32_Witness ==
    /\ state.position > 0
    /\ mainPc = "drain" /\ drainCount = maxEscapeLen - 1
    /\ timerPc = "render"

(* C37: a timed session never deadlocks between the main task and the      *)
(* timer goroutine.  A task that holds displayMutex is inside its render,  *)
(* at no channel operation; a task waiting for displayMutex gets it; and   *)
(* the timer goroutine's send on timeUp is received: the main task comes   *)
(* back to the select that takes it                                        *)
C37_NoDeadlock ==
    /\ [](displayMutex = "main" => mainPc = "render")
    /\ [](displayMutex = "timer" => timerPc = "render")
    /\ (mainPc = "lock") ~> (mainPc = "render")
    /\ (timerPc = "lock") ~> (timerPc = "render")
    /\ (timerPc = "send") ~> (timerPc = "exit")

(* What remains of the time limit, in nanoseconds, in the call followed *)
Remaining == IF timeLimit - frame.elapsed <= 0 THEN 0 ELSE timeLimit - frame.elapsed

(* C31: the number in the timer line is ceil(remaining / 1 second), with   *)
(* remaining = max(0, time_limit - elapsed) taken to the nanosecond; it is *)
(* 0 only when remaining = 0                                               *)
C31_CountdownCeiling ==
    frame.timerLine # <<>> =>
        /\ frame.timerLine[1] =
              (Remaining \div Second) + (IF Remaining % Second > 0 THEN 1 ELSE 0)
        /\ frame.timerLine[1] = 0 => Remaining = 0

(* The text is words of at most lineWidth characters, one space between    *)
(* two words and none before the first                                     *)
SingleSpacedWords(text, lineWidth) ==
    /\ text # <<>> => text[1] # keySpace
    /\ \A i \in 1..(Len(text) - 1) : ~(text[i] = keySpace /\ text[i + 1] = keySpace)
    /\ \A i \in 1..(Len(text) - lineWidth) :
          \E j \in i..(i + lineWidth) : text[j] = keySpace

(* C39: when the words of the text are at most line_width =                *)
(* terminal_width - 1 characters long and single spaces part them, every   *)
(* wrapped line holds at most line_width characters and none begins with   *)
(* a space                                                                 *)
C39_WrappedLinesFit ==
    (frame # NoFrame /\ SingleSpacedWords(state.sessionText, termWidth - cursorWidth))
        => \A n \in 1..Len(frame.lines) :
              /\ Len(frame.lines[n].content) <= termWidth - cursorWidth
              /\ frame.lines[n].content # <<>>
                    => frame.lines[n].content[1] # keySpace

(* the text was wrapped into several lines, one of them full to the last   *)
(* column and followed by an absorbed space, one wrapped short of it       *)
C39_Witness ==
    /\ frame # NoFrame
    /\ SingleSpacedWords(state.sessionText, termWidth - cursorWidth)
    /\ Len(frame.lines) > 2
    /\ Absorbed # {}
    /\ \E n \in 1..Len(frame.lines) :
          Len(frame.lines[n].content) = termWidth - cursorWidth
    /\ \E n \in 1..(Len(frame.lines) - 1) :
          Len(frame.lines[n].content) < termWidth - cursorWidth - 1

====
